---- MODULE Spec2Model ----
(***************************************************************************)
(* State-machine model of the CT brand-protection monitor's ingestion      *)
(* engine: the lifecycle-managed worker (Monitor.Start / Stop / run /      *)
(* processBatch), the monitor_state singleton row, the keywords and the    *)
(* matched_certificates tables, the leaf parser and the matcher.           *)
(***************************************************************************)
EXTENDS Integers, Sequences, FiniteSets, TLC

(***************************************************************************)
(* Bounds of the model.                                                    *)
(***************************************************************************)
\* goroutine slots: how many worker goroutines may be alive at once
MaxWorkers == 2
\* the log never grows beyond this many entries
MaxTree == 2
\* MONITOR_BATCH_SIZE of the modelled deployment
BatchSize == 1

Workers == 1..MaxWorkers

Max(a, b) == IF a >= b THEN a ELSE b
Min(a, b) == IF a <= b THEN a ELSE b

(***************************************************************************)
(* Strings are sequences of one-character strings.                         *)
(***************************************************************************)
LowerChar(c) ==
    CASE c = "A" -> "a"
      [] c = "B" -> "b"
      [] c = "C" -> "c"
      [] c = "X" -> "x"
      [] OTHER -> c

\* strings.ToLower
ToLower(s) == [i \in 1..Len(s) |-> LowerChar(s[i])]

\* strings.Contains
Contains(s, sub) ==
    \E i \in 0..(Len(s) - Len(sub)) : SubSeq(s, i + 1, i + Len(sub)) = sub

HexDigit(d) ==
    CASE d = 10 -> "a" [] d = 11 -> "b" [] d = 12 -> "c"
      [] d = 13 -> "d" [] d = 14 -> "e" [] d = 15 -> "f"
      [] d = 0 -> "0" [] d = 1 -> "1" [] d = 2 -> "2" [] d = 3 -> "3"
      [] d = 4 -> "4" [] d = 5 -> "5" [] d = 6 -> "6" [] d = 7 -> "7"
      [] d = 8 -> "8" [] OTHER -> "9"

RECURSIVE HexText(_)
\* big.Int.Text(16): lowercase hexadecimal without leading zeros
HexText(n) ==
    IF n < 16 THEN <<HexDigit(n)>>
    ELSE HexText(n \div 16) \o <<HexDigit(n % 16)>>

(***************************************************************************)
(* The certificates the modelled log holds.  x509.ParseCertificate is a    *)
(* library call: it is a lookup from the DER bytes to the decoded fields.  *)
(***************************************************************************)
DerA == <<48, 1>>
DerB == <<48, 2>>

X509Parse(der) ==
    CASE der = DerA ->
           [ok |-> TRUE, serialNumber |-> 26,
            cn |-> <<"a", "B", "c", "x">>, dnsNames |-> <<>>,
            issuerCN |-> <<"c", "a">>, issuerOrg |-> <<>>]
      [] der = DerB ->
           [ok |-> TRUE, serialNumber |-> 7,
            cn |-> <<>>,
            dnsNames |-> << <<"x", "b", "c", "x">>, <<"a", "b", "c", "x">> >>,
            issuerCN |-> <<>>, issuerOrg |-> << <<"o">> >>]
      [] OTHER ->
           [ok |-> FALSE, serialNumber |-> 0, cn |-> <<>>, dnsNames |-> <<>>,
            issuerCN |-> <<>>, issuerOrg |-> <<>>]

\* readUint24: 3-byte big-endian unsigned integer
readUint24(b) == b[1] * 65536 + b[2] * 256 + b[3]

\* binary.BigEndian.Uint16
Uint16(b) == b[1] * 256 + b[2]

RECURSIVE Uint64(_)
\* binary.BigEndian.Uint64 of the bytes given
Uint64(b) ==
    IF Len(b) = 0 THEN 0
    ELSE Uint64(SubSeq(b, 1, Len(b) - 1)) * 256 + b[Len(b)]

ParseError(kind) ==
    [err |-> kind, timestamp |-> 0, serial |-> <<>>, commonName |-> <<>>,
     sans |-> <<>>, issuer |-> <<>>]

\* a parser that decodes what is there when the x509 entry is cut short
ParseLeafInputLenient(data, extraData) ==
    IF Len(data) < 15 THEN ParseError("TooShort")
    ELSE
      LET entryType == Uint16(SubSeq(data, 11, 12))
          x509End   == Min(Len(data), 15 + readUint24(SubSeq(data, 13, 15)))
          preEnd    == 3 + readUint24(SubSeq(extraData, 1, 3))
          Decode(certDER) ==
              LET cert == X509Parse(certDER) IN
              IF ~cert.ok THEN ParseError("ParseFailed")
              ELSE [ParseError("") EXCEPT !.serial = HexText(cert.serialNumber),
                                          !.commonName = cert.cn, !.sans = cert.dnsNames]
      IN
      CASE entryType = 0 -> Decode(SubSeq(data, 16, x509End))
        [] entryType = 1 ->
             IF Len(extraData) < 3 THEN ParseError("TooShort")
             ELSE IF Len(extraData) < preEnd THEN ParseError("TooShort")
             ELSE Decode(SubSeq(extraData, 4, preEnd))
        [] OTHER -> ParseError("UnknownType")

\* a parser that rejects a leaf whose version or leaf type is not 0
ParseLeafInputVersioned(data, extraData) ==
    IF Len(data) < 15 THEN ParseError("TooShort")
    ELSE IF data[1] # 0 \/ data[2] # 0 THEN ParseError("UnknownType")
    ELSE
      LET timestamp == Uint64(SubSeq(data, 3, 10))
          entryType == Uint16(SubSeq(data, 11, 12))
          x509Len   == readUint24(SubSeq(data, 13, 15))
          x509End   == 15 + x509Len
          preLen    == readUint24(SubSeq(extraData, 1, 3))
          preEnd    == 3 + preLen
          Decode(certDER) ==
              LET cert == X509Parse(certDER) IN
              IF ~cert.ok THEN ParseError("ParseFailed")
              ELSE [err |-> "",
                    timestamp |-> timestamp,
                    serial |-> HexText(cert.serialNumber),
                    commonName |-> cert.cn,
                    sans |-> cert.dnsNames,
                    issuer |-> IF cert.issuerCN = <<>> /\ Len(cert.issuerOrg) > 0
                               THEN cert.issuerOrg[1] ELSE cert.issuerCN]
      IN
      CASE entryType = 0 ->
             IF Len(data) < x509End THEN ParseError("TooShort")
             ELSE Decode(SubSeq(data, 16, x509End))
        [] entryType = 1 ->
             IF Len(extraData) < 3 THEN ParseError("TooShort")
             ELSE IF Len(extraData) < preEnd THEN ParseError("TooShort")
             ELSE Decode(SubSeq(extraData, 4, preEnd))
        [] OTHER -> ParseError("UnknownType")

\* ParseLeafInput(data, extraData): err = "" on success
ParseLeafInput(data, extraData) ==
    IF Len(data) < 15 THEN ParseError("TooShort")
    ELSE
      LET timestamp == Uint64(SubSeq(data, 3, 10))
          entryType == Uint16(SubSeq(data, 11, 12))
          x509Len   == readUint24(SubSeq(data, 13, 15))
          x509End   == 15 + x509Len
          preLen    == readUint24(SubSeq(extraData, 1, 3))
          preEnd    == 3 + preLen
          Decode(certDER) ==
              LET cert == X509Parse(certDER) IN
              IF ~cert.ok THEN ParseError("ParseFailed")
              ELSE [err |-> "",
                    timestamp |-> timestamp,
                    serial |-> HexText(cert.serialNumber),
                    commonName |-> cert.cn,
                    sans |-> cert.dnsNames,
                    issuer |-> IF cert.issuerCN = <<>> /\ Len(cert.issuerOrg) > 0
                               THEN cert.issuerOrg[1] ELSE cert.issuerCN]
      IN
      CASE entryType = 0 ->
             IF Len(data) < x509End THEN ParseError("TooShort")
             ELSE Decode(SubSeq(data, 16, x509End))
        [] entryType = 1 ->
             IF Len(extraData) < 3 THEN ParseError("TooShort")
             ELSE IF Len(extraData) < preEnd THEN ParseError("TooShort")
             ELSE Decode(SubSeq(extraData, 4, preEnd))
        [] OTHER -> ParseError("UnknownType")

\* the slice expressions ParseLeafInput evaluates, in order: buffer[lo:hi] as Go
\* writes them, offsets from 0 and hi excluded
ParseSlices(data, extraData) ==
    IF Len(data) < 15 THEN <<>>
    ELSE
      LET entryType == Uint16(SubSeq(data, 11, 12))
          x509End   == 15 + readUint24(SubSeq(data, 13, 15))
          preEnd    == 3 + readUint24(SubSeq(extraData, 1, 3))
          Slice(buf, lo, hi) == [buf |-> buf, lo |-> lo, hi |-> hi]
          header    == << Slice("data", 2, 10), Slice("data", 10, 12) >>
      IN
      CASE entryType = 0 ->
             header \o << Slice("data", 12, 15) >>
                    \o (IF Len(data) < x509End THEN <<>>
                        ELSE << Slice("data", 15, x509End) >>)
        [] entryType = 1 ->
             IF Len(extraData) < 3 THEN header
             ELSE header \o << Slice("extraData", 0, 3) >>
                         \o (IF Len(extraData) < preEnd THEN <<>>
                             ELSE << Slice("extraData", 3, preEnd) >>)
        [] OTHER -> header

RECURSIVE LastSAN(_, _)
\* the last SAN containing the lower-cased keyword
LastSAN(sans, lower) ==
    IF sans = <<>> THEN <<>>
    ELSE LET rest == LastSAN(Tail(sans), lower) IN
         IF rest # <<>> THEN rest
         ELSE IF Contains(ToLower(Head(sans)), lower) THEN <<Head(sans)>>
         ELSE <<>>

RECURSIVE FirstSAN(_, _)
\* the first SAN containing the lower-cased keyword, <<>> wrapped: <<san>> or <<>>
FirstSAN(sans, lower) ==
    IF sans = <<>> THEN <<>>
    ELSE IF Contains(ToLower(Head(sans)), lower) THEN <<Head(sans)>>
    ELSE FirstSAN(Tail(sans), lower)

RECURSIVE MatchReversed(_, _)
\* the same results, those of the later keywords first
MatchReversed(cert, keywords) ==
    IF keywords = <<>> THEN <<>>
    ELSE
      LET kw    == Head(keywords)
          lower == ToLower(kw.value)
          san   == FirstSAN(cert.sans, lower)
          this  == IF cert.commonName # <<>> /\ Contains(ToLower(cert.commonName), lower)
                   THEN <<[keywordID |-> kw.id, matchedDomain |-> cert.commonName] >>
                   ELSE IF san # <<>>
                   THEN <<[keywordID |-> kw.id, matchedDomain |-> san[1]] >>
                   ELSE <<>>
      IN MatchReversed(cert, Tail(keywords)) \o this

RECURSIVE Match(_, _)
\* matcher.Match(cert, keywords): one result per keyword, CN first, then SANs
Match(cert, keywords) ==
    IF keywords = <<>> THEN <<>>
    ELSE
      LET kw    == Head(keywords)
          lower == ToLower(kw.value)
          san   == FirstSAN(cert.sans, lower)
          this  == IF cert.commonName # <<>> /\ Contains(ToLower(cert.commonName), lower)
                   THEN <<[keywordID |-> kw.id, matchedDomain |-> cert.commonName] >>
                   ELSE IF san # <<>>
                   THEN <<[keywordID |-> kw.id, matchedDomain |-> san[1]] >>
                   ELSE <<>>
      IN this \o Match(cert, Tail(keywords))

(***************************************************************************)
(* The log: entry i of the append-only tree.                               *)
(***************************************************************************)
LeafHeader(entryType) == <<0, 0, 0, 0, 0, 0, 0, 0, 0, 5, 0, entryType>>

\* buildLeaf of the tests: header, 24-bit length, DER
X509Leaf(der) == LeafHeader(0) \o <<0, 0, Len(der)>> \o der

LogEntry(i) ==
    CASE i % 4 = 0 -> [leafInput |-> X509Leaf(DerA), extraData |-> <<>>]
      [] i % 4 = 1 -> [leafInput |-> LeafHeader(1) \o <<0, 0, 0>>,
                       extraData |-> <<0, 0, Len(DerA)>> \o DerA]
      [] i % 4 = 2 -> [leafInput |-> X509Leaf(<<48, 9>>), extraData |-> <<>>]
      [] OTHER     -> [leafInput |-> X509Leaf(DerB), extraData |-> <<>>]

(***************************************************************************)
(* State.                                                                  *)
(***************************************************************************)
VARIABLES
    procUp,           \* the server process is running and past main's initialisation
    reprocessOnIdle,  \* Monitor.reprocessOnIdle (static configuration)
    batchSize,        \* Monitor.batchSize (static configuration)
    faults,           \* the kinds of calls to the log and the store that can fail in this run
    panicky,          \* whether calls made by the worker can panic in this run
    request,          \* the worker started by the HTTP request that is still being served
    cancel,           \* Monitor.cancel: 0 is nil, w is the cancel function of worker w's context
    ret,              \* what the Start / Stop call of the last step returned
    wk,               \* the worker goroutines: position in run/processBatch and locals
    db,               \* the monitor_state singleton row
    keywords,         \* the keywords table, in insertion order
    matches,          \* the matched_certificates table, in insertion order
    treeSize,         \* the current size of the CT log
    matchCall,        \* the call of matcher.Match under examination: arguments and return
    parseCall,        \* the call of ParseLeafInput under examination: arguments and return
    keywordSeq        \* keywords_id_seq: the last id the keywords table handed out

\* what a run is started with and keeps
run == <<reprocessOnIdle, batchSize, faults, panicky>>

\* the kinds of calls the worker and the lifecycle operations make
CallKinds == {"log", "progress", "keywords", "insert", "error", "running"}

\* whether any call can fail in this run
faulty == faults # {}

vars == <<procUp, run, request, cancel, ret, wk, db, keywords, matches,
          treeSize, matchCall, parseCall, keywordSeq>>

\* errors.New("monitor already running") and friends, as Start/Stop return them
ErrAlreadyRunning == "monitor already running"
ErrNotRunning == "monitor not running"
ErrStore == "store error"
PanicValue == "boom"

NoReturn == [op |-> "none", err |-> ""]

\* no call of matcher.Match is under examination
NoCall == [cert |-> [commonName |-> <<>>, sans |-> <<>>], keywords |-> <<>>,
           returned |-> FALSE, results |-> <<>>]

\* no call of ParseLeafInput is under examination
NoParse == [data |-> <<>>, extraData |-> <<>>, returned |-> FALSE, err |-> "",
            slices |-> <<>>]

\* model.MonitorState as the worker reads and writes it
ZeroState ==
    [LastProcessedIndex |-> 0, LastTreeSize |-> 0, TotalProcessed |-> 0,
     CertsInLastCycle |-> 0, MatchesInLastCycle |-> 0, ParseErrorsInLastCycle |-> 0,
     IsRunning |-> FALSE, LastError |-> ""]

\* the fields of the state read in step 2 that processBatch goes on to use
Progress(state) ==
    [LastProcessedIndex |-> state.LastProcessedIndex,
     TotalProcessed |-> state.TotalProcessed,
     CertsInLastCycle |-> state.CertsInLastCycle,
     MatchesInLastCycle |-> state.MatchesInLastCycle,
     ParseErrorsInLastCycle |-> state.ParseErrorsInLastCycle]

\* a free goroutine slot; the locals of processBatch are reset between ticks
NoWorker ==
    [pc |-> "none", parent |-> "background", done |-> FALSE,
     sth |-> 0, state |-> Progress(ZeroState), start |-> 0, end |-> 0, hasNewEntries |-> FALSE,
     batchStart |-> 0, entries |-> 0, keywords |-> <<>>, next |-> 0, matchCount |-> 0,
     err |-> ""]

\* the positions of a goroutine that is inside processBatch with a live context
BatchPCs == {"sth", "get", "entries", "reentries", "idle", "keywords", "match",
             "update", "clear", "seterror"}

Alive(w) == wk[w].pc # "none"

\* the keyword the modelled deployment monitors from the start
FirstKeyword == [id |-> 1, value |-> <<"a", "b", "c">>]

Init ==
    /\ procUp = FALSE
    /\ \/ reprocessOnIdle \in BOOLEAN /\ faults = CallKinds /\ panicky = FALSE
       \/ reprocessOnIdle = FALSE /\ faults = {} /\ panicky = TRUE
    /\ batchSize = BatchSize
    /\ request = 0
    /\ cancel = 0
    /\ ret = NoReturn
    /\ wk = [w \in Workers |-> NoWorker]
    /\ db = ZeroState
    /\ keywords = <<FirstKeyword>>
    /\ keywordSeq = FirstKeyword.id
    /\ matches = <<>>
    /\ treeSize = 0
    /\ matchCall = NoCall
    /\ parseCall = NoParse

(***************************************************************************)
(* The store (repository package).  Every call either takes effect or      *)
(* fails without effect; a call made with a canceled context fails.        *)
(***************************************************************************)
\* the results a call of the given kind, made with a live context, can have
Results(kind) == IF kind \in faults THEN BOOLEAN ELSE {TRUE}

\* MonitorRepository.SetRunning: toggles only is_running
SetRunning(row, running) == [row EXCEPT !.IsRunning = running]

\* MonitorRepository.SetError: writes only last_error
SetError(row, errMsg) == [row EXCEPT !.LastError = errMsg]

\* MonitorRepository.Update: full overwrite of the mutable fields
Update(row, state) == state

\* MonitorRepository.Get
Get(row) == row

RECURSIVE Reverse(_)
Reverse(s) == IF s = <<>> THEN <<>> ELSE Reverse(Tail(s)) \o <<Head(s)>>

\* KeywordRepository.List: ORDER BY created_at DESC
List(table) == Reverse(table)

HasPair(table, serial, keywordID) ==
    \E i \in 1..Len(table) :
        table[i].SerialNumber = serial /\ table[i].KeywordID = keywordID

\* an INSERT without the ON CONFLICT clause
CreateAlways(table, cert) == Append(table, cert)

\* CertificateRepository.Create: INSERT ... ON CONFLICT (serial_number, keyword_id) DO NOTHING
Create(table, cert) ==
    IF HasPair(table, cert.SerialNumber, cert.KeywordID) THEN table
    ELSE Append(table, cert)

\* keyword_id REFERENCES keywords(id): the insert fails when the keyword is gone
KeywordExists(table, id) == \E i \in 1..Len(table) : table[i].id = id

(***************************************************************************)
(* main: process start, and the process going away.                        *)
(***************************************************************************)
\* a main() that leaves the flag of the previous run alone
StartupStateKept(row) == row

\* main(): monitorRepo.SetRunning(ctx, false), the reset of a stale flag
StartupState(row) == SetRunning(row, FALSE)

\* main() up to monitor.New: the reset before the monitor is built; os.Exit(1) when it fails
ProcessStart ==
    /\ ~procUp
    /\ \E ok \in Results("running") :
         IF ok
         THEN /\ procUp' = TRUE
              /\ db' = StartupState(db)
              /\ ret' = [op |-> "main", err |-> ""]
         ELSE /\ ret' = [op |-> "main", err |-> ErrStore]
              /\ UNCHANGED <<procUp, db>>
    /\ cancel' = 0
    /\ request' = 0
    /\ wk' = [w \in Workers |-> NoWorker]
    /\ UNCHANGED <<run, matchCall, parseCall, keywordSeq, keywords, matches, treeSize>>

\* the process is killed: its memory and goroutines are gone, the database stays
Crash ==
    /\ procUp
    /\ procUp' = FALSE
    /\ cancel' = 0
    /\ request' = 0
    /\ ret' = NoReturn
    /\ wk' = [w \in Workers |-> NoWorker]
    /\ UNCHANGED <<run, matchCall, parseCall, keywordSeq, db, keywords, matches, treeSize>>

(***************************************************************************)
(* Monitor.Start / Stop / IsRunning.                                       *)
(***************************************************************************)
\* Monitor.IsRunning
IsRunning == cancel # 0

FreeSlots == {w \in Workers : ~Alive(w)}

\* context.WithCancel(ctx): a worker context derived from the caller's
CallerContext == "caller"

\* context.WithCancel(context.Background()): the worker context has no parent to inherit from
StartContext == "background"

\* a failure path of Start without m.cancel = nil
StartFailedHandleKept(w) == w

\* what Start leaves in m.cancel when SetRunning(true) failed
StartFailedHandle(w) == 0

\* the worker's context is canceled.  From then on every call the tick still makes is
\* made with a canceled context and fails without effect, so the rest of the tick is
\* one position, "canceled", left when processBatch returns.
Canceled(r) ==
    IF r.pc \in BatchPCs
    THEN [NoWorker EXCEPT !.pc = "canceled", !.parent = r.parent, !.done = TRUE]
    ELSE [r EXCEPT !.done = TRUE]

\* a Start without the check
StartNeverRefused == FALSE

\* Start's check under the mutex: if m.cancel != nil { return ErrAlreadyRunning }
StartRefused == cancel # 0

\* Monitor.Start(ctx), the mutex held from the first line to the last
Start ==
    /\ procUp
    /\ IF StartRefused
       THEN /\ ret' = [op |-> "Start", err |-> ErrAlreadyRunning]
            /\ UNCHANGED <<cancel, request, wk, db>>
       ELSE \E ok \in Results("running") :
              /\ FreeSlots # {}
              /\ LET w == CHOOSE x \in FreeSlots : \A y \in FreeSlots : x <= y IN
                 IF ok
                 THEN /\ cancel' = w
                      /\ request' = w
                      /\ db' = SetRunning(db, TRUE)
                      /\ wk' = [wk EXCEPT ![w] =
                                  [NoWorker EXCEPT !.pc = "sth", !.parent = StartContext]]
                      /\ ret' = [op |-> "Start", err |-> ""]
                 ELSE /\ cancel' = StartFailedHandle(w)
                      /\ ret' = [op |-> "Start", err |-> ErrStore]
                      /\ UNCHANGED <<request, wk, db>>
    /\ UNCHANGED <<procUp, run, matchCall, parseCall, keywordSeq, keywords, matches, treeSize>>

\* a Stop without the check
StopNeverRefused == FALSE

\* Stop's check under the mutex: if m.cancel == nil { return ErrNotRunning }
StopRefused == cancel = 0

\* a Stop without m.cancel = nil
StoppedHandleKept == cancel

\* what Stop leaves in m.cancel: m.cancel = nil
StoppedHandle == 0

\* a SetRunning(false) made on the context the caller passed: it fails when that
\* context is already canceled
StopCallerResults(callerDone) == IF callerDone THEN {FALSE} ELSE Results("running")

\* dbCtx: context.WithTimeout(context.Background(), 5*time.Second); what the caller
\* passed is not looked at
StopResults(callerDone) == Results("running")

\* Monitor.Stop(_): cancel, clear, SetRunning(false) on a fresh 5 s context;
\* callerDone says whether the context the caller passed is already canceled
StopCall(callerDone) ==
    /\ procUp
    /\ IF StopRefused
       THEN /\ ret' = [op |-> "Stop", err |-> ErrNotRunning]
            /\ UNCHANGED <<cancel, wk, db>>
       ELSE /\ wk' = [wk EXCEPT ![cancel] = Canceled(@)]
            /\ cancel' = StoppedHandle
            /\ \E ok \in StopResults(callerDone) :
                 IF ok
                 THEN /\ db' = SetRunning(db, FALSE)
                      /\ ret' = [op |-> "Stop", err |-> ""]
                 ELSE /\ db' = db
                      /\ ret' = [op |-> "Stop", err |-> ErrStore]
    /\ UNCHANGED <<procUp, run, matchCall, parseCall, keywordSeq, request, keywords, matches, treeSize>>

\* a Stop request, its context live or already canceled
Stop == \E callerDone \in BOOLEAN : StopCall(callerDone)

\* the HTTP request that called Start has been served: its context is canceled, and
\* with it every context derived from it
CancelCallerContext ==
    /\ request # 0
    /\ request' = 0
    /\ wk' = [wk EXCEPT ![request] = IF @.parent = "caller" /\ @.pc # "none"
                                     THEN Canceled(@) ELSE @]
    /\ ret' = NoReturn
    /\ UNCHANGED <<procUp, run, matchCall, parseCall, keywordSeq, cancel, db, keywords, matches, treeSize>>

(***************************************************************************)
(* Monitor.run and Monitor.processBatch, one action per call the worker    *)
(* makes to the log or to the store.  A worker whose position is in        *)
(* BatchPCs has a live context.                                            *)
(***************************************************************************)
\* processBatch returns: the goroutine is back in run's select
Returned(w) ==
    [NoWorker EXCEPT !.pc = "wait", !.parent = wk[w].parent, !.done = wk[w].done]

\* an error path that returns without recording anything
FailedSilently(w, msg) == Returned(w)

\* the error path of processBatch: SetError(ctx, msg) is the next and last call
Failed(w, msg) == [Returned(w) EXCEPT !.pc = "seterror", !.err = msg]

Unchanged(w, others) ==
    /\ wk' = [wk EXCEPT ![w] = others]
    /\ ret' = NoReturn
    /\ UNCHANGED <<procUp, run, matchCall, parseCall, keywordSeq, request, cancel, keywords, treeSize>>

\* step 1: m.ctClient.GetSTH(ctx)
GetSTH(w) ==
    /\ wk[w].pc = "sth"
    /\ \E ok \in Results("log") :
         Unchanged(w, IF ok THEN [wk[w] EXCEPT !.pc = "get", !.sth = treeSize]
                      ELSE Failed(w, "failed to get STH: " \o ErrStore))
    /\ UNCHANGED <<db, matches>>

\* step 3: the batch range computed from the state read and the tree size
\* the same difference, not clamped
FirstRunStartUnclamped(sthTreeSize, size) == sthTreeSize - size

\* start = max(0, sth.TreeSize-int64(m.batchSize)): the first batch is the last of the log
FirstRunStart(sthTreeSize, size) == Max(0, sthTreeSize - size)

\* a full batch whatever the tree head says
BatchEndUnclamped(start, sthTreeSize, size) == start + size - 1

\* end := min(start+int64(m.batchSize)-1, sth.TreeSize-1)
BatchEnd(start, sthTreeSize, size) == Min(start + size - 1, sthTreeSize - 1)

\* a range that starts at the first entry of the log once the index is set
RangeStartFromZero(lastProcessedIndex, sthTreeSize) ==
    IF lastProcessedIndex = 0 THEN FirstRunStart(sthTreeSize, batchSize)
    ELSE 0

RangeStart(lastProcessedIndex, sthTreeSize) ==
    IF lastProcessedIndex = 0 THEN FirstRunStart(sthTreeSize, batchSize)
    ELSE lastProcessedIndex

RangeEnd(start, sthTreeSize) == BatchEnd(start, sthTreeSize, batchSize)

ReprocessStart(lastProcessedIndex) == Max(0, lastProcessedIndex - batchSize)

ReprocessEnd(lastProcessedIndex) == lastProcessedIndex - 1

\* the branch of step 4 that processBatch takes
Branch(lastProcessedIndex, sthTreeSize) ==
    LET start == RangeStart(lastProcessedIndex, sthTreeSize) IN
    IF start <= RangeEnd(start, sthTreeSize) THEN "entries"
    ELSE IF reprocessOnIdle
    THEN IF ReprocessStart(lastProcessedIndex) > ReprocessEnd(lastProcessedIndex)
         THEN "idle" ELSE "reentries"
    ELSE "idle"

\* the state read in step 2, as the branch taken goes on to use it: only the
\* caught-up write copies the counters of the last cycle
Snapshot(state, branch) ==
    IF branch = "idle" THEN Progress(state)
    ELSE [Progress(ZeroState) EXCEPT !.LastProcessedIndex = state.LastProcessedIndex,
                                     !.TotalProcessed = state.TotalProcessed]

\* steps 2 to 4 up to the next call: m.state.Get(ctx), the range, the branch taken
GetState(w) ==
    /\ wk[w].pc = "get"
    /\ \E ok \in Results("progress") :
         IF ok
         THEN LET state == Get(db)
                  start == RangeStart(state.LastProcessedIndex, wk[w].sth)
                  end   == RangeEnd(start, wk[w].sth)
                  pc    == Branch(state.LastProcessedIndex, wk[w].sth)
              IN Unchanged(w, [wk[w] EXCEPT !.pc = pc, !.state = Snapshot(state, pc),
                                            !.start = start, !.end = end,
                                            !.hasNewEntries = start <= end])
         ELSE Unchanged(w, Failed(w, "failed to get monitor state: " \o ErrStore))
    /\ UNCHANGED <<db, matches>>

\* step 4, new entries: m.ctClient.GetEntries(ctx, start, end); the log may return fewer
GetEntries(w) ==
    /\ wk[w].pc = "entries"
    /\ \E ok \in Results("log") :
         IF ok
         THEN \E n \in 0..(wk[w].end - wk[w].start + 1) :
                Unchanged(w, [wk[w] EXCEPT !.pc = "keywords", !.entries = n,
                                           !.batchStart = wk[w].start])
         ELSE Unchanged(w, Failed(w, "failed to fetch entries: " \o ErrStore))
    /\ UNCHANGED <<db, matches>>

\* step 4, caught up and reprocessOnIdle: re-fetch the previous batch
RefetchEntries(w) ==
    /\ wk[w].pc = "reentries"
    /\ LET reprocessStart == ReprocessStart(wk[w].state.LastProcessedIndex)
           reprocessEnd   == ReprocessEnd(wk[w].state.LastProcessedIndex)
       IN \E ok \in Results("log") :
            IF ok
            THEN \E n \in 0..(reprocessEnd - reprocessStart + 1) :
                   Unchanged(w, [wk[w] EXCEPT !.pc = "keywords", !.entries = n,
                                              !.batchStart = reprocessStart])
            ELSE Unchanged(w, Failed(w, "failed to re-fetch entries: " \o ErrStore))
    /\ UNCHANGED <<db, matches>>

\* a caught-up write that starts the counters of the cycle afresh
IdleStateReset(state, sthTreeSize) ==
    [LastProcessedIndex     |-> state.LastProcessedIndex,
     LastTreeSize           |-> sthTreeSize,
     TotalProcessed         |-> state.TotalProcessed,
     CertsInLastCycle       |-> 0,
     MatchesInLastCycle     |-> 0,
     ParseErrorsInLastCycle |-> 0,
     IsRunning              |-> TRUE,
     LastError              |-> ""]

\* a caught-up write that stores the index it read as the tree size
IdleStateStaleTree(state, sthTreeSize) ==
    [LastProcessedIndex     |-> state.LastProcessedIndex,
     LastTreeSize           |-> state.LastProcessedIndex,
     TotalProcessed         |-> state.TotalProcessed,
     CertsInLastCycle       |-> state.CertsInLastCycle,
     MatchesInLastCycle     |-> state.MatchesInLastCycle,
     ParseErrorsInLastCycle |-> state.ParseErrorsInLastCycle,
     IsRunning              |-> TRUE,
     LastError              |-> ""]

\* the MonitorState a caught-up tick writes: the state read, with the tree size refreshed
IdleState(state, sthTreeSize) ==
    [LastProcessedIndex     |-> state.LastProcessedIndex,
     LastTreeSize           |-> sthTreeSize,
     TotalProcessed         |-> state.TotalProcessed,
     CertsInLastCycle       |-> state.CertsInLastCycle,
     MatchesInLastCycle     |-> state.MatchesInLastCycle,
     ParseErrorsInLastCycle |-> state.ParseErrorsInLastCycle,
     IsRunning              |-> TRUE,
     LastError              |-> ""]

\* step 4, nothing to fetch: m.state.Update(ctx, ...) and return
IdleUpdate(w) ==
    /\ wk[w].pc = "idle"
    /\ \E ok \in Results("progress") :
         db' = IF ok THEN Update(db, IdleState(wk[w].state, wk[w].sth)) ELSE db
    /\ Unchanged(w, Returned(w))
    /\ UNCHANGED matches

RECURSIVE CertsUntilError(_, _, _, _)
\* a matchEntries that gives the batch up at the first entry it cannot parse
CertsUntilError(i, n, batchStart, kws) ==
    IF i >= n THEN <<>>
    ELSE
      LET entry == LogEntry(batchStart + i)
          cert  == ParseLeafInput(entry.leafInput, entry.extraData)
          found == Match(cert, kws)
      IN IF cert.err # "" THEN <<>>
         ELSE [m \in 1..Len(found) |->
                 [SerialNumber  |-> cert.serial,
                  CommonName    |-> cert.commonName,
                  KeywordID     |-> found[m].keywordID,
                  MatchedDomain |-> found[m].matchedDomain,
                  CTLogIndex    |-> batchStart + i]]
              \o CertsUntilError(i + 1, n, batchStart, kws)

RECURSIVE CertsToCreateBackwards(_, _, _, _)
\* a matchEntries that goes through the batch from its last entry to its first
CertsToCreateBackwards(i, n, batchStart, kws) ==
    IF i >= n THEN <<>>
    ELSE
      LET entry == LogEntry(batchStart + i)
          cert  == ParseLeafInput(entry.leafInput, entry.extraData)
          found == IF cert.err # "" THEN <<>> ELSE Match(cert, kws)
      IN CertsToCreateBackwards(i + 1, n, batchStart, kws)
         \o [m \in 1..Len(found) |->
               [SerialNumber  |-> cert.serial,
                CommonName    |-> cert.commonName,
                KeywordID     |-> found[m].keywordID,
                MatchedDomain |-> found[m].matchedDomain,
                CTLogIndex    |-> batchStart + i]]

RECURSIVE CertsToCreate(_, _, _, _)
\* matchEntries: the Create calls of entries i.. of a batch of n, in the order made
CertsToCreate(i, n, batchStart, kws) ==
    IF i >= n THEN <<>>
    ELSE
      LET entry == LogEntry(batchStart + i)
          cert  == ParseLeafInput(entry.leafInput, entry.extraData)
          found == IF cert.err # "" THEN <<>> ELSE Match(cert, kws)
      IN [m \in 1..Len(found) |->
            [SerialNumber  |-> cert.serial,
             CommonName    |-> cert.commonName,
             KeywordID     |-> found[m].keywordID,
             MatchedDomain |-> found[m].matchedDomain,
             CTLogIndex    |-> batchStart + i]]
         \o CertsToCreate(i + 1, n, batchStart, kws)

RECURSIVE ParseErrors(_, _, _)
\* matchEntries: the entries of the batch that ParseLeafInput rejects
ParseErrors(i, n, batchStart) ==
    IF i >= n THEN 0
    ELSE (IF ParseLeafInput(LogEntry(batchStart + i).leafInput,
                            LogEntry(batchStart + i).extraData).err # ""
          THEN 1 ELSE 0) + ParseErrors(i + 1, n, batchStart)

\* step 5: m.keywords.List(ctx)
ListKeywords(w) ==
    /\ wk[w].pc = "keywords"
    /\ \E ok \in Results("keywords") :
         IF ok
         THEN LET kws == List(keywords)
                  pc  == IF kws = <<>>
                         THEN IF wk[w].hasNewEntries THEN "update" ELSE "clear"
                         ELSE IF CertsToCreate(0, wk[w].entries, wk[w].batchStart, kws) = <<>>
                         THEN "update" ELSE "match"
              IN Unchanged(w, IF pc = "clear" THEN [Returned(w) EXCEPT !.pc = "clear"]
                              ELSE [wk[w] EXCEPT !.pc = pc, !.keywords = kws])
         ELSE Unchanged(w, Failed(w, "failed to load keywords: " \o ErrStore))
    /\ UNCHANGED <<db, matches>>

\* matchEntries: the Create calls of worker w's batch
Plan(w) == CertsToCreate(0, wk[w].entries, wk[w].batchStart, wk[w].keywords)

\* a match counted whether or not it was stored
CountedAlways(stored) == 1

\* matchEntries: if err != nil { continue }; matchCount++
Counted(stored) == IF stored THEN 1 ELSE 0

\* step 6: one m.certs.Create(ctx, ...) of matchEntries
CreateMatch(w) ==
    /\ wk[w].pc = "match"
    /\ LET plan == Plan(w)
           cert == plan[wk[w].next + 1]
           pc   == IF wk[w].next + 1 = Len(plan) THEN "update" ELSE "match"
       IN \E ok \in Results("insert") :
            LET stored == ok /\ KeywordExists(keywords, cert.KeywordID) IN
            /\ matches' = IF stored THEN Create(matches, cert) ELSE matches
            /\ Unchanged(w, [wk[w] EXCEPT !.pc = pc, !.next = @ + 1,
                                          !.matchCount = @ + Counted(stored)])
    /\ UNCHANGED db

\* an updateState that writes the number of entries as the number of matches
AdvancedStateEntriesAsMatches(prev, endIndex, sthTreeSize, processed, matchCount, parseErrors) ==
    [LastProcessedIndex     |-> endIndex + 1,
     LastTreeSize           |-> sthTreeSize,
     TotalProcessed         |-> prev.TotalProcessed + processed,
     CertsInLastCycle       |-> processed,
     MatchesInLastCycle     |-> processed,
     ParseErrorsInLastCycle |-> parseErrors,
     IsRunning              |-> TRUE,
     LastError              |-> ""]

\* an updateState that stays where it was when the log returned nothing
AdvancedStateIfAny(prev, endIndex, sthTreeSize, processed, matchCount, parseErrors) ==
    [LastProcessedIndex     |-> IF processed = 0 THEN prev.LastProcessedIndex
                                ELSE endIndex + 1,
     LastTreeSize           |-> sthTreeSize,
     TotalProcessed         |-> prev.TotalProcessed + processed,
     CertsInLastCycle       |-> processed,
     MatchesInLastCycle     |-> matchCount,
     ParseErrorsInLastCycle |-> parseErrors,
     IsRunning              |-> TRUE,
     LastError              |-> ""]

\* updateState: the MonitorState written after new entries were processed
AdvancedState(prev, endIndex, sthTreeSize, processed, matchCount, parseErrors) ==
    [LastProcessedIndex     |-> endIndex + 1,
     LastTreeSize           |-> sthTreeSize,
     TotalProcessed         |-> prev.TotalProcessed + processed,
     CertsInLastCycle       |-> processed,
     MatchesInLastCycle     |-> matchCount,
     ParseErrorsInLastCycle |-> parseErrors,
     IsRunning              |-> TRUE,
     LastError              |-> ""]

\* a reprocessed batch that moves the index on
ReprocessedStateAdvanced(state, sthTreeSize, processed, matchCount, parseErrors) ==
    [LastProcessedIndex     |-> state.LastProcessedIndex + processed,
     LastTreeSize           |-> sthTreeSize,
     TotalProcessed         |-> state.TotalProcessed,
     CertsInLastCycle       |-> processed,
     MatchesInLastCycle     |-> matchCount,
     ParseErrorsInLastCycle |-> parseErrors,
     IsRunning              |-> TRUE,
     LastError              |-> ""]

\* step 7, reprocessed batch: only the cycle counters and the tree size change
ReprocessedState(state, sthTreeSize, processed, matchCount, parseErrors) ==
    [LastProcessedIndex     |-> state.LastProcessedIndex,
     LastTreeSize           |-> sthTreeSize,
     TotalProcessed         |-> state.TotalProcessed,
     CertsInLastCycle       |-> processed,
     MatchesInLastCycle     |-> matchCount,
     ParseErrorsInLastCycle |-> parseErrors,
     IsRunning              |-> TRUE,
     LastError              |-> ""]

\* step 7 (and the no-keywords branch of step 5): the progress write of the tick
UpdateProgress(w) ==
    /\ wk[w].pc = "update"
    /\ LET parseErrors == IF wk[w].keywords = <<>> THEN 0
                          ELSE ParseErrors(0, wk[w].entries, wk[w].batchStart)
           state == IF wk[w].hasNewEntries
                    THEN AdvancedState(wk[w].state, wk[w].end, wk[w].sth, wk[w].entries,
                                       wk[w].matchCount, parseErrors)
                    ELSE ReprocessedState(wk[w].state, wk[w].sth, wk[w].entries,
                                          wk[w].matchCount, parseErrors)
       IN \E ok \in Results("progress") :
            db' = IF ok THEN Update(db, state) ELSE db
    /\ Unchanged(w, [Returned(w) EXCEPT !.pc = "clear"])
    /\ UNCHANGED matches

\* the last call of a completed tick: m.state.SetError(ctx, "")
ClearError(w) ==
    /\ wk[w].pc = "clear"
    /\ \E ok \in Results("error") :
         db' = IF ok THEN SetError(db, "") ELSE db
    /\ Unchanged(w, Returned(w))
    /\ UNCHANGED matches

\* a failed tick that ends the goroutine
RecordErrorAndExit(w) ==
    /\ wk[w].pc = "seterror"
    /\ \E ok \in Results("error") :
         db' = IF ok THEN SetError(db, wk[w].err) ELSE db
    /\ Unchanged(w, NoWorker)
    /\ UNCHANGED matches

\* the last call of a failed tick: m.state.SetError(ctx, msg)
RecordError(w) ==
    /\ wk[w].pc = "seterror"
    /\ \E ok \in Results("error") :
         db' = IF ok THEN SetError(db, wk[w].err) ELSE db
    /\ Unchanged(w, Returned(w))
    /\ UNCHANGED matches

\* the tick of a worker whose context was canceled: its remaining calls fail, it returns
CanceledReturn(w) ==
    /\ wk[w].pc = "canceled"
    /\ Unchanged(w, Returned(w))
    /\ UNCHANGED <<db, matches>>

\* run's select: case <-ticker.C (Go picks either case when both are ready)
Tick(w) ==
    /\ wk[w].pc = "wait"
    /\ Unchanged(w, IF wk[w].done THEN [wk[w] EXCEPT !.pc = "canceled"]
                    ELSE [wk[w] EXCEPT !.pc = "sth"])
    /\ UNCHANGED <<db, matches>>

\* run's select: case <-ctx.Done()
Exit(w) ==
    /\ wk[w].pc = "wait"
    /\ wk[w].done
    /\ Unchanged(w, NoWorker)
    /\ UNCHANGED <<db, matches>>

\* a call made by processBatch panics; run's deferred function takes over
Panic(w) ==
    /\ panicky
    /\ wk[w].pc \in BatchPCs \cup {"canceled"}
    /\ Unchanged(w, [Returned(w) EXCEPT !.pc = "recover", !.err = PanicValue])
    /\ UNCHANGED <<db, matches>>

\* what the deferred function leaves in m.cancel
RecoveredHandle(w) == 0

\* deferred function: m.mu.Lock(); m.cancel = nil; m.mu.Unlock()
RecoverClear(w) ==
    /\ wk[w].pc = "recover"
    /\ cancel' = RecoveredHandle(w)
    /\ wk' = [wk EXCEPT ![w].pc = "recover_running"]
    /\ ret' = NoReturn
    /\ UNCHANGED <<procUp, run, matchCall, parseCall, keywordSeq, request, db, keywords, matches, treeSize>>

\* the cleanup writes are made on a context of their own, with a 5 s timeout, when
\* something has already gone wrong: they can fail in every run
CleanupResults == BOOLEAN

\* the panic value recorded without the prefix
BareMessage(r) == r

\* fmt.Sprintf("panic: %v", r)
PanicMessage(r) == "panic: " \o r

\* deferred function: m.state.SetRunning(cleanupCtx, false)
RecoverSetRunning(w) ==
    /\ wk[w].pc = "recover_running"
    /\ \E ok \in CleanupResults :
         db' = IF ok THEN SetRunning(db, FALSE) ELSE db
    /\ Unchanged(w, [wk[w] EXCEPT !.pc = "recover_error"])
    /\ UNCHANGED matches

\* deferred function: m.state.SetError(cleanupCtx, fmt.Sprintf("panic: %v", r)); run returns
RecoverSetError(w) ==
    /\ wk[w].pc = "recover_error"
    /\ \E ok \in CleanupResults :
         db' = IF ok THEN SetError(db, PanicMessage(wk[w].err)) ELSE db
    /\ Unchanged(w, NoWorker)
    /\ UNCHANGED matches

(***************************************************************************)
(* The environment: the log grows, keywords come and go through the API.   *)
(***************************************************************************)
LogGrows ==
    /\ treeSize < MaxTree
    /\ treeSize' = treeSize + 1
    /\ ret' = NoReturn
    /\ UNCHANGED <<procUp, run, matchCall, parseCall, keywordSeq, request, cancel, wk, db, keywords,
                   matches>>

WorkerStep(w) ==
    \/ GetSTH(w)
    \/ GetState(w)
    \/ GetEntries(w)
    \/ RefetchEntries(w)
    \/ IdleUpdate(w)
    \/ ListKeywords(w)
    \/ CreateMatch(w)
    \/ UpdateProgress(w)
    \/ ClearError(w)
    \/ RecordError(w)
    \/ CanceledReturn(w)
    \/ Tick(w)
    \/ Exit(w)
    \/ Panic(w)
    \/ RecoverClear(w)
    \/ RecoverSetRunning(w)
    \/ RecoverSetError(w)

Next ==
    \/ ProcessStart
    \/ Crash
    \/ Start
    \/ Stop
    \/ CancelCallerContext
    \/ \E w \in Workers : WorkerStep(w)
    \/ LogGrows

Spec == Init /\ [][Next]_vars

(***************************************************************************)
(* The ticks of one worker, seen closely: the monitor is started once and  *)
(* left running over a longer log and a larger batch, the log's front end  *)
(* may answer with an older tree head, keywords are added through the API, *)
(* and one kind of call at most can fail in a run.                         *)
(***************************************************************************)
\* the log of this specification never grows beyond this many entries
TickTree == 4
\* MONITOR_BATCH_SIZE of the deployment observed
TickBatch == 2

\* the kinds of calls that can fail, one choice per run
TickFaults == {{"log"}, {"insert"}, {"progress"}}

RECURSIVE TrimLeft(_)
TrimLeft(s) == IF s # <<>> /\ Head(s) = " " THEN TrimLeft(Tail(s)) ELSE s

RECURSIVE TrimRight(_)
TrimRight(s) ==
    IF s # <<>> /\ s[Len(s)] = " " THEN TrimRight(SubSeq(s, 1, Len(s) - 1)) ELSE s

\* strings.TrimSpace
TrimSpace(s) == TrimRight(TrimLeft(s))

\* the request bodies the API is sent
KeywordInputs == { <<" ", "a", "b", "c">>, <<"a", "b", " ">>, <<" ">> }

\* a UNIQUE that compares the values with the letter case folded
HasValueFold(table, value) ==
    \E i \in 1..Len(table) : ToLower(table[i].value) = ToLower(value)

\* value TEXT NOT NULL UNIQUE: the value is already in the table, byte for byte
HasValue(table, value) == \E i \in 1..Len(table) : table[i].value = value

\* KeywordRepository.Create: INSERT INTO keywords (value); value is UNIQUE, compared
\* byte by byte, and id is the next value of the sequence
InsertKeyword(table, value) ==
    IF HasValue(table, value) THEN table
    ELSE Append(table, [id |-> keywordSeq + 1, value |-> value])

\* the status KeywordHandler.Create answers with; ok is whether the store worked
CreateStatus(table, input, ok) ==
    LET value == TrimSpace(input) IN
    IF value = <<>> \/ Len(value) < 3 THEN 400
    ELSE IF ~ok THEN 500
    ELSE IF HasValue(table, value) THEN 409
    ELSE 201

\* KeywordHandler.Create for one request body: trim, validate, insert
CreateKeywordRequest(input) ==
    /\ procUp
    /\ \E ok \in Results("keywords") :
         IF CreateStatus(keywords, input, ok) = 201
         THEN /\ keywords' = InsertKeyword(keywords, TrimSpace(input))
              /\ keywordSeq' = keywordSeq + 1
         ELSE UNCHANGED <<keywords, keywordSeq>>
    /\ ret' = NoReturn
    /\ UNCHANGED <<procUp, run, matchCall, parseCall, request, cancel, wk, db, matches,
                   treeSize>>

\* KeywordHandler.Create: the answer goes to the client
CreateKeyword == \E input \in KeywordInputs : CreateKeywordRequest(input)

\* step 1, answered by a front end of the log that is behind: an older tree head
GetStaleSTH(w) ==
    /\ wk[w].pc = "sth"
    /\ \E size \in 0..(treeSize - 1) :
         Unchanged(w, [wk[w] EXCEPT !.pc = "get", !.sth = size])
    /\ UNCHANGED <<db, matches>>

TickLogGrows ==
    /\ treeSize < TickTree
    /\ treeSize' = treeSize + 1
    /\ ret' = NoReturn
    /\ UNCHANGED <<procUp, run, matchCall, parseCall, keywordSeq, request, cancel, wk, db, keywords,
                   matches>>

TickInit ==
    /\ procUp = FALSE
    /\ reprocessOnIdle \in BOOLEAN
    /\ batchSize = TickBatch
    /\ faults \in TickFaults
    /\ panicky = FALSE
    /\ request = 0
    /\ cancel = 0
    /\ ret = NoReturn
    /\ wk = [w \in Workers |-> NoWorker]
    /\ db = ZeroState
    /\ keywords = <<>>
    /\ keywordSeq = 0
    /\ matches = <<>>
    /\ treeSize = 0
    /\ matchCall = NoCall
    /\ parseCall = NoParse

TickStep(w) ==
    \/ GetSTH(w)
    \/ GetStaleSTH(w)
    \/ GetState(w)
    \/ GetEntries(w)
    \/ RefetchEntries(w)
    \/ IdleUpdate(w)
    \/ ListKeywords(w)
    \/ CreateMatch(w)
    \/ UpdateProgress(w)
    \/ ClearError(w)
    \/ RecordError(w)
    \/ Tick(w)

\* the one Start of the run
FirstStart == ~IsRunning /\ Start

TickNext ==
    \/ ProcessStart
    \/ FirstStart
    \/ CreateKeyword
    \/ \E w \in Workers : TickStep(w)
    \/ TickLogGrows

SpecTicks == TickInit /\ [][TickNext]_vars

(***************************************************************************)
(* matcher.Match on its own: a call with a certificate and a keyword list  *)
(* drawn from small sets, and its return.                                  *)
(***************************************************************************)
MaxSANs == 2
MaxKeywords == 2

\* common names: none, one in mixed case, two others
CommonNames == { <<>>, <<"A", "b">>, <<"c", "b">>, <<"x">> }

\* subject alternative names
SANNames == { <<"x", "a", "B">>, <<"c", "x">>, <<"a", "b">> }

\* keyword values, as stored (the matcher lower-cases them)
KeywordValues == { <<"A", "B">>, <<"x">>, <<"b">> }

SeqsUpTo(S, n) == UNION { [1..m -> S] : m \in 0..n }

\* ctlog.ParsedCertificate, the fields Match reads
MatchCerts == [commonName : CommonNames, sans : SeqsUpTo(SANNames, MaxSANs)]

\* []model.Keyword with distinct ids
MatchKeywords ==
    { [i \in 1..Len(vs) |-> [id |-> 10 + i, value |-> vs[i]]] :
        vs \in SeqsUpTo(KeywordValues, MaxKeywords) }

MatchInit ==
    /\ procUp = FALSE
    /\ reprocessOnIdle = FALSE
    /\ batchSize = BatchSize
    /\ faults = {}
    /\ panicky = FALSE
    /\ request = 0
    /\ cancel = 0
    /\ ret = NoReturn
    /\ wk = [w \in Workers |-> NoWorker]
    /\ db = ZeroState
    /\ keywords = <<>>
    /\ keywordSeq = 0
    /\ matches = <<>>
    /\ treeSize = 0
    /\ \E c \in MatchCerts, ks \in MatchKeywords :
         matchCall = [cert |-> c, keywords |-> ks, returned |-> FALSE, results |-> <<>>]
    /\ parseCall = NoParse

\* results := Match(cert, keywords)
CallMatch ==
    /\ ~matchCall.returned
    /\ matchCall' = [matchCall EXCEPT !.returned = TRUE,
                                      !.results = Match(matchCall.cert, matchCall.keywords)]
    /\ UNCHANGED <<procUp, run, request, cancel, ret, wk, db, keywords, matches,
                   treeSize, parseCall, keywordSeq>>

MatchNext == CallMatch

SpecMatch == MatchInit /\ [][MatchNext]_vars

(***************************************************************************)
(* ParseLeafInput on its own: a call with a leaf and an extra_data drawn    *)
(* from the framed buffers below and from everything they are cut down to. *)
(***************************************************************************)
\* the largest length a frame declares
MaxDeclared == 3

\* what follows a declared length: nothing, a cut DER, a certificate, bytes that do
\* not decode, a certificate with a byte after it
ParseBodies == { <<>>, <<48>>, DerA, <<48, 9>>, DerA \o <<0>> }

\* the TBSCertificate bytes of the precert leaves
TBSBodies == { <<>>, <<48>> }

\* a 24-bit length and the bytes it announces
Frame(length, body) == <<0, 0, length>> \o body

\* PreCert.issuer_key_hash: 32 bytes
KeyHash == [i \in 1..32 |-> 0]

Prefixes(s) == { SubSeq(s, 1, n) : n \in 0..Len(s) }

\* the leaf with its first two bytes, version and leaf type, set
Versioned(leaf, version, leafType) == <<version, leafType>> \o SubSeq(leaf, 3, Len(leaf))

Leaves ==
    { LeafHeader(0) \o Frame(l, b) : l \in 0..MaxDeclared, b \in ParseBodies }
    \cup { LeafHeader(1) \o KeyHash \o Frame(l, b) : l \in 0..MaxDeclared, b \in TBSBodies }
    \cup { LeafHeader(2) \o Frame(0, <<>>) }
    \cup { Versioned(X509Leaf(DerA), v, t) : v, t \in 0..1 }

\* leaf_input: the leaves, whole and cut short
LeafInputs == UNION { Prefixes(leaf) : leaf \in Leaves }

\* extra_data: the certificate frames, whole and cut short
ExtraDatas ==
    UNION { Prefixes(Frame(l, b)) : l \in 0..MaxDeclared, b \in ParseBodies }

ParseInit ==
    /\ procUp = FALSE
    /\ reprocessOnIdle = FALSE
    /\ batchSize = BatchSize
    /\ faults = {}
    /\ panicky = FALSE
    /\ request = 0
    /\ cancel = 0
    /\ ret = NoReturn
    /\ wk = [w \in Workers |-> NoWorker]
    /\ db = ZeroState
    /\ keywords = <<>>
    /\ keywordSeq = 0
    /\ matches = <<>>
    /\ treeSize = 0
    /\ matchCall = NoCall
    /\ \E d \in LeafInputs, x \in ExtraDatas :
         parseCall = [NoParse EXCEPT !.data = d, !.extraData = x]

\* cert, err := ParseLeafInput(data, extraData)
CallParse ==
    /\ ~parseCall.returned
    /\ parseCall' = [parseCall EXCEPT
                       !.returned = TRUE,
                       !.err = ParseLeafInput(parseCall.data, parseCall.extraData).err,
                       !.slices = ParseSlices(parseCall.data, parseCall.extraData)]
    /\ UNCHANGED <<procUp, run, request, cancel, ret, wk, db, keywords, matches,
                   treeSize, matchCall, keywordSeq>>

ParseNext == CallParse

SpecParse == ParseInit /\ [][ParseNext]_vars

(***************************************************************************)
(* The keyword API on its own: create and delete requests against the      *)
(* keywords table.                                                         *)
(***************************************************************************)
\* the sequence of keyword ids is not followed beyond this value
MaxKeywordID == 4

\* the request bodies sent: one value in three spellings, with and without blanks
\* around it, a value that is too short and a blank one
KeywordBodies ==
    { <<" ", "a", "b", "c">>, <<"A", "B", "C">>, <<"A", "b", "c", " ">>,
      <<"a", "b">>, <<" ">> }

\* KeywordHandler.Create, while the sequence is followed
PostKeyword ==
    /\ keywordSeq < MaxKeywordID
    /\ \E input \in KeywordBodies : CreateKeywordRequest(input)

\* the status KeywordHandler.Delete answers with
DeleteStatus(table, id, ok) ==
    IF ~ok THEN 500 ELSE IF ~KeywordExists(table, id) THEN 404 ELSE 204

RemoveKeyword(table, id) == SelectSeq(table, LAMBDA k : k.id # id)

\* keyword_id REFERENCES keywords(id) ON DELETE CASCADE
RemoveMatchesOf(table, id) == SelectSeq(table, LAMBDA m : m.KeywordID # id)

\* KeywordHandler.Delete and KeywordRepository.Delete: DELETE FROM keywords WHERE id = $1
DeleteKeywordRequest(id) ==
    /\ procUp
    /\ \E ok \in Results("keywords") :
         IF DeleteStatus(keywords, id, ok) = 204
         THEN /\ keywords' = RemoveKeyword(keywords, id)
              /\ matches' = RemoveMatchesOf(matches, id)
         ELSE UNCHANGED <<keywords, matches>>
    /\ ret' = NoReturn
    /\ UNCHANGED <<procUp, run, matchCall, parseCall, keywordSeq, request, cancel, wk, db,
                   treeSize>>

DeleteKeyword == \E id \in 1..MaxKeywordID : DeleteKeywordRequest(id)

KeywordsInit ==
    /\ procUp = FALSE
    /\ reprocessOnIdle = FALSE
    /\ batchSize = BatchSize
    /\ faults \in {{}, {"keywords"}}
    /\ panicky = FALSE
    /\ request = 0
    /\ cancel = 0
    /\ ret = NoReturn
    /\ wk = [w \in Workers |-> NoWorker]
    /\ db = ZeroState
    /\ keywords = <<>>
    /\ keywordSeq = 0
    /\ matches = <<>>
    /\ treeSize = 0
    /\ matchCall = NoCall
    /\ parseCall = NoParse

KeywordsNext ==
    \/ ProcessStart
    \/ PostKeyword
    \/ DeleteKeyword

SpecKeywords == KeywordsInit /\ [][KeywordsNext]_vars

(***************************************************************************)
(* The ticks of one worker over a keywords table that holds two keywords   *)
(* from the start, both found in the certificates of the log.              *)
(***************************************************************************)
\* the keywords table at process start
BatchKeywords ==
    << [id |-> 1, value |-> <<"a", "b", "c">>],
       [id |-> 2, value |-> <<"b", "c", "x">>] >>

\* the kinds of calls that can fail, one choice per run
BatchFaults == {{}, {"log"}}

BatchInit ==
    /\ procUp = FALSE
    /\ reprocessOnIdle \in BOOLEAN
    /\ batchSize = TickBatch
    /\ faults \in BatchFaults
    /\ panicky = FALSE
    /\ request = 0
    /\ cancel = 0
    /\ ret = NoReturn
    /\ wk = [w \in Workers |-> NoWorker]
    /\ db = ZeroState
    /\ keywords = BatchKeywords
    /\ keywordSeq = Len(BatchKeywords)
    /\ matches = <<>>
    /\ treeSize = 0
    /\ matchCall = NoCall
    /\ parseCall = NoParse

BatchNext ==
    \/ ProcessStart
    \/ FirstStart
    \/ \E w \in Workers : TickStep(w)
    \/ TickLogGrows

SpecBatch == BatchInit /\ [][BatchNext]_vars

(***************************************************************************)
(* The worker under fair scheduling: the ticker fires, and every call the  *)
(* tick makes returns.  Start and Stop are called at will, nothing panics  *)
(* and the process stays up.                                               *)
(***************************************************************************)
\* the kinds of calls that can fail, one choice per run
FairFaults == {{"log"}, {"progress"}, {"keywords"}}

FairInit ==
    /\ procUp = FALSE
    /\ reprocessOnIdle \in BOOLEAN
    /\ batchSize = BatchSize
    /\ faults \in FairFaults
    /\ panicky = FALSE
    /\ request = 0
    /\ cancel = 0
    /\ ret = NoReturn
    /\ wk = [w \in Workers |-> NoWorker]
    /\ db = ZeroState
    /\ keywords = <<FirstKeyword>>
    /\ keywordSeq = FirstKeyword.id
    /\ matches = <<>>
    /\ treeSize = 0
    /\ matchCall = NoCall
    /\ parseCall = NoParse

\* run and processBatch without a panic
FairStep(w) ==
    \/ GetSTH(w)
    \/ GetState(w)
    \/ GetEntries(w)
    \/ RefetchEntries(w)
    \/ IdleUpdate(w)
    \/ ListKeywords(w)
    \/ CreateMatch(w)
    \/ UpdateProgress(w)
    \/ ClearError(w)
    \/ RecordError(w)
    \/ CanceledReturn(w)
    \/ Tick(w)
    \/ Exit(w)

FairNext ==
    \/ ProcessStart
    \/ Start
    \/ Stop
    \/ \E w \in Workers : FairStep(w)
    \/ LogGrows

\* the SetError call of a failed tick returns, and time.NewTicker(m.interval) keeps
\* firing while the goroutine is in run's select
Fairness == \A w \in Workers : WF_vars(RecordError(w)) /\ WF_vars(Tick(w))

SpecFair == FairInit /\ [][FairNext]_vars /\ Fairness

(***************************************************************************)
(* The claims.                                                             *)
(***************************************************************************)
MatchUniqueness ==
    \A i, j \in 1..Len(matches) :
        (/\ matches[i].SerialNumber = matches[j].SerialNumber
         /\ matches[i].KeywordID = matches[j].KeywordID) => i = j

\* worker w's next Create is for a (serial, keyword) pair that is already stored
Repeated(w) ==
    /\ wk[w].pc = "match"
    /\ HasPair(matches, Plan(w)[wk[w].next + 1].SerialNumber,
               Plan(w)[wk[w].next + 1].KeywordID)

\* C1: the matches table never holds two rows with the same (serial, keyword_id),
\* and a Create of a pair that is already stored leaves the table as it is and,
\* when the store does not fail, returns success (the tick counts it as a match).
C1_MatchUniqueness ==
    /\ []MatchUniqueness
    /\ [][\A w \in Workers :
            (Repeated(w) /\ CreateMatch(w)) =>
                /\ matches' = matches
                /\ ~faulty => wk'[w].matchCount = wk[w].matchCount + 1]_vars

\* C1 witness: the pre-certificate at index 1 was matched and counted although the
\* row of the certificate at index 0, with the same serial, was already stored
C1_Witness ==
    \E w \in Workers :
        /\ wk[w].pc = "update"
        /\ wk[w].batchStart = 1
        /\ wk[w].matchCount = 1
        /\ Len(matches) = 1
        /\ matches[1].CTLogIndex = 0

\* C2: the persisted last_processed_index never decreases from one state to the next.
C2_IndexNeverDecreases ==
    [][db'.LastProcessedIndex >= db.LastProcessedIndex]_vars

(***************************************************************************)
(* C3.                                                                     *)
(***************************************************************************)
StartOk == [op |-> "Start", err |-> ""]
StopOk == [op |-> "Stop", err |-> ""]

\* C3 as stated: while the process runs, a stored handle is cleared only by a Stop
\* that returns ok (so IsRunning() is true from Start ok until Stop ok), and a fresh
\* process has no handle until a Start is accepted.
C3_RunningUntilStopOk ==
    /\ [](~procUp => ~IsRunning)
    /\ [][(~IsRunning /\ IsRunning') => ret' = StartOk]_vars
    /\ [][(IsRunning /\ ~IsRunning' /\ procUp') => ret' = StopOk]_vars

\* C3 amended: IsRunning() is true from the Start that returns ok until Stop is
\* called, whatever Stop returns, or the panic handler of a worker goroutine clears
\* the handle; a fresh process has no handle until a Start is accepted.
C3_RunningUntilStopOrPanic ==
    /\ [](~procUp => ~IsRunning)
    /\ [][(~IsRunning /\ IsRunning') => ret' = StartOk]_vars
    /\ [][ret' = StartOk => IsRunning']_vars
    /\ [][(IsRunning /\ ~IsRunning' /\ procUp') =>
            \/ ret'.op = "Stop"
            \/ \E w \in Workers : RecoverClear(w)]_vars
    /\ [][(IsRunning /\ Stop) => ~IsRunning']_vars

\* C3 witness: a worker that has completed ticks is waiting for the next one, its
\* handle still stored
C3_Witness ==
    /\ IsRunning
    /\ wk[cancel].pc = "wait"
    /\ db.LastProcessedIndex > 0

(***************************************************************************)
(* C4.                                                                     *)
(***************************************************************************)
\* C4: the end of the request that called Start changes no worker; a worker's
\* context becomes done only when Stop cancels it, and a worker whose context is
\* live leaves the loop only through the panic handler (or with the process).
C4_WorkerOutlivesCaller ==
    /\ [][CancelCallerContext => wk' = wk]_vars
    /\ [][\A w \in Workers :
            (Alive(w) /\ ~wk[w].done /\ procUp') =>
                /\ wk'[w].done => (ret'.op = "Stop" /\ cancel = w)
                /\ ~Alive(w)' => wk[w].pc = "recover_error"]_vars

\* C4 witness: the request that started the worker is over, and the worker is in
\* a later tick, about to write progress
C4_Witness ==
    /\ IsRunning
    /\ request = 0
    /\ wk[cancel].pc = "update"
    /\ db.LastProcessedIndex > 0

C6_OneWorkerLoop == Cardinality({w \in Workers : Alive(w)}) <= 1

(***************************************************************************)
(* C7.                                                                     *)
(***************************************************************************)
\* nothing runs and nothing says so
Quiet == ~db.IsRunning /\ ~IsRunning /\ \A w \in Workers : ~Alive(w)

\* C7: process start leaves is_running false, last_processed_index as it was, no
\* handle and no worker; no Start is accepted before it; and from then on nothing
\* runs or is shown as running until a Start returns ok.
C7_RestartResetsFlag ==
    /\ [][(~procUp /\ procUp') =>
            (Quiet' /\ db'.LastProcessedIndex = db.LastProcessedIndex)]_vars
    /\ [][ret'.op = "Start" => procUp]_vars
    /\ [][(procUp /\ Quiet /\ procUp') => (Quiet' \/ ret' = StartOk)]_vars

\* C7 witness: the process has just started over a database that holds progress
C7_Witness ==
    /\ ret = [op |-> "main", err |-> ""]
    /\ db.LastProcessedIndex > 0
    /\ Quiet

(***************************************************************************)
(* C8, C9, C10.                                                            *)
(***************************************************************************)
\* C8: a Start called while a handle is stored returns AlreadyRunning and changes
\* neither the handle, the workers nor the store; a Start returns ok only when no
\* handle was stored and stores one, so of Starts racing on a stopped monitor the
\* first to take the mutex is the only one accepted.
C8_StartRefusedWhileRunning ==
    /\ [][(IsRunning /\ ret'.op = "Start") =>
            /\ ret'.err = ErrAlreadyRunning
            /\ UNCHANGED <<cancel, wk, db, matches, keywords>>]_vars
    /\ [][(~IsRunning /\ ret'.op = "Start") => ret'.err # ErrAlreadyRunning]_vars
    /\ [][ret' = StartOk => (~IsRunning /\ IsRunning')]_vars

\* C8 witness: a Start was refused while the one worker was running
C8_Witness ==
    /\ ret = [op |-> "Start", err |-> ErrAlreadyRunning]
    /\ IsRunning
    /\ Cardinality({w \in Workers : Alive(w)}) = 1

\* C9: a Start whose SetRunning(true) fails returns that error, leaves no handle,
\* no new worker and the row as it was, and the Start after it is not refused.
C9_StartFailureClears ==
    /\ [][(ret'.op = "Start" /\ ret'.err = ErrStore) =>
            (~IsRunning' /\ wk' = wk /\ db' = db)]_vars
    /\ [][(ret.op = "Start" /\ ret.err = ErrStore /\ ret'.op = "Start") =>
            ret'.err # ErrAlreadyRunning]_vars

\* C9 witness: a Start has just failed on the store
C9_Witness ==
    /\ ret = [op |-> "Start", err |-> ErrStore]
    /\ ~IsRunning
    /\ \A w \in Workers : ~Alive(w)

\* C10: a Stop called while no handle is stored returns NotRunning and changes
\* neither the handle, the workers nor the store.
C10_StopRefusedWhenStopped ==
    [][(~IsRunning /\ ret'.op = "Stop") =>
         /\ ret'.err = ErrNotRunning
         /\ UNCHANGED <<cancel, wk, db, matches, keywords>>]_vars

\* C10 witness: a Stop was refused after the worker had panicked
C10_Witness ==
    /\ ret = [op |-> "Stop", err |-> ErrNotRunning]
    /\ db.LastError = "panic: boom"
    /\ \A w \in Workers : ~Alive(w)

(***************************************************************************)
(* C11.                                                                    *)
(***************************************************************************)
\* C11: a Stop called while a handle is stored cancels that worker's context, clears
\* the handle and writes is_running = false on a context of its own: every outcome it
\* can have with a live caller context it can have with a canceled one and the other
\* way round, it returns ok whenever the store does not fail, and when it has
\* returned ok the row says not running and IsRunning() is false.
C11_StopOwnContext ==
    /\ [][(IsRunning /\ Stop) => (StopCall(TRUE) /\ StopCall(FALSE))]_vars
    /\ [][(IsRunning /\ StopCall(TRUE)) =>
            /\ wk'[cancel].done
            /\ wk'[cancel].pc \notin BatchPCs
            /\ ~IsRunning'
            /\ ~faulty => ret' = StopOk
            /\ ret' = StopOk => ~db'.IsRunning]_vars

\* C11 witness: a Stop has returned ok; the worker it canceled has not left run yet
C11_Witness ==
    /\ ret = StopOk
    /\ ~IsRunning
    /\ ~db.IsRunning
    /\ \E w \in Workers : wk[w].pc = "canceled" /\ wk[w].done

(***************************************************************************)
(* C12.                                                                    *)
(***************************************************************************)
\* C12: after any tick that completes successfully the row satisfies
\* last_processed_index <= last_tree_size, whatever tree sizes the log reports.
\* (The two fields are written only by the progress write of a tick, so this is a
\* property of every state.)
C12_IndexWithinTree == db.LastProcessedIndex <= db.LastTreeSize

(***************************************************************************)
(* C13.                                                                    *)
(***************************************************************************)
\* the message processBatch records for a log call that failed at this position
LogFailureMessage(pc) ==
    CASE pc = "sth"       -> "failed to get STH: " \o ErrStore
      [] pc = "entries"   -> "failed to fetch entries: " \o ErrStore
      [] pc = "reentries" -> "failed to re-fetch entries: " \o ErrStore

\* C13: when GetSTH or GetEntries fails, the tick makes one more call and no other:
\* SetError with a non-empty message naming the phase that failed; nothing was
\* written before the failure and nothing but last_error is written after it, so
\* the progress fields are what they were and the next tick reads the same
\* last_processed_index.
C13_LogFailureAbortsTick ==
    [][\A w \in Workers :
         /\ (/\ wk[w].pc \in {"sth", "entries", "reentries"}
             /\ wk'[w].pc # wk[w].pc
             /\ wk'[w].pc \notin {"get", "keywords"})
              => /\ wk'[w].pc = "seterror"
                 /\ wk'[w].err = LogFailureMessage(wk[w].pc)
                 /\ wk'[w].err # ""
                 /\ db' = db
                 /\ matches' = matches
         /\ (wk[w].pc = "seterror" /\ wk'[w].pc # wk[w].pc)
              => /\ wk'[w].pc = "wait"
                 /\ db' = [db EXCEPT !.LastError = wk[w].err]
                 /\ db'.LastError # ""
                 /\ matches' = matches]_vars

\* C13 witness: a tick that found entries to fetch has failed on GetEntries and
\* returned; the index is where the earlier ticks left it
C13_Witness ==
    /\ db.LastError = "failed to fetch entries: " \o ErrStore
    /\ db.LastProcessedIndex > 0
    /\ db.LastProcessedIndex < treeSize
    /\ \E w \in Workers : wk[w].pc = "wait"

(***************************************************************************)
(* C14.                                                                    *)
(***************************************************************************)
\* C14: when a tick returns, last_error is the message of the phase that failed in
\* that tick, or empty when the tick recorded no failure; it is never a message
\* left by an earlier tick.
C14_LastErrorOfThisTick ==
    [][\A w \in Workers :
         (wk[w].pc \in {"idle", "clear", "seterror"} /\ wk'[w].pc = "wait")
             => db'.LastError = wk[w].err]_vars

Rows(serial, keywordID) ==
    Cardinality({j \in 1..Len(matches) :
                    /\ matches[j].SerialNumber = serial
                    /\ matches[j].KeywordID = keywordID})

\* worker w has made every Create of a caught-up tick in re-match mode
Rematched(w) ==
    /\ reprocessOnIdle
    /\ wk[w].pc = "update"
    /\ ~wk[w].hasNewEntries
    /\ "insert" \notin faults

\* C16 as stated: when the Creates of a caught-up tick in re-match mode are done,
\* every certificate fetched so far that a keyword listed in the tick matches has
\* exactly one row for that keyword.  (total_processed = last_processed_index
\* says that every entry below the index was fetched by some tick; the log has
\* answered the tick with every entry it was asked for.)
C16_RematchFindsFetched ==
    \A w \in Workers :
        (/\ Rematched(w)
         /\ db.TotalProcessed = db.LastProcessedIndex
         /\ wk[w].batchStart + wk[w].entries = db.LastProcessedIndex) =>
            \A i \in 0..(db.LastProcessedIndex - 1) :
                LET found == CertsToCreate(0, 1, i, wk[w].keywords) IN
                \A m \in 1..Len(found) :
                    Rows(found[m].SerialNumber, found[m].KeywordID) = 1

\* C16 amended: a caught-up tick in re-match mode fetches again the range
\* [max(0, last_processed_index - batch_size), last_processed_index - 1]; when its
\* Creates are done, every certificate the log returned for that range that a
\* keyword listed in the tick matches has exactly one row for that keyword, unless
\* an insert failed; the tick's write leaves last_processed_index as it was and
\* records the matches counted.
C16_RematchWindow ==
    /\ [](\A w \in Workers :
            Rematched(w) =>
                \A m \in 1..Len(Plan(w)) :
                    Rows(Plan(w)[m].SerialNumber, Plan(w)[m].KeywordID) = 1)
    /\ [][\A w \in Workers :
            (wk[w].pc = "reentries" /\ wk'[w].pc = "keywords") =>
                /\ wk'[w].batchStart = Max(0, db.LastProcessedIndex - batchSize)
                /\ wk'[w].batchStart + wk'[w].entries <= db.LastProcessedIndex]_vars
    /\ [][\A w \in Workers :
            (Rematched(w) /\ wk'[w].pc # wk[w].pc) =>
                /\ db'.LastProcessedIndex = db.LastProcessedIndex
                /\ db'.TotalProcessed = db.TotalProcessed
                /\ "progress" \notin faults =>
                       db'.MatchesInLastCycle = wk[w].matchCount]_vars

\* C16 witness: the last batch was fetched when no keyword matched it (certificates
\* but no matches in that cycle); a keyword was added, and the caught-up tick that
\* follows has stored a match for it
C16_Witness ==
    \E w \in Workers :
        /\ Rematched(w)
        /\ db.CertsInLastCycle >= 1
        /\ db.MatchesInLastCycle = 0
        /\ db.LastProcessedIndex = treeSize
        /\ wk[w].matchCount >= 1
        /\ Len(matches) = 1

(***************************************************************************)
(* C17.                                                                    *)
(***************************************************************************)
\* C17: a tick that reads last_processed_index = 0 computes
\* start = max(0, tree_size - batch_size), never negative, and end = tree_size - 1,
\* asks the log for that range when it is not empty, and its progress write, when
\* it succeeds, sets last_processed_index to the tree size; tree size 1000 and
\* batch size 50 give 950 and 999.
C17_FirstRunRange ==
    /\ [](/\ FirstRunStart(1000, 50) = 950
          /\ BatchEnd(FirstRunStart(1000, 50), 1000, 50) = 999
          /\ FirstRunStart(20, 50) = 0
          /\ BatchEnd(FirstRunStart(20, 50), 20, 50) = 19)
    /\ [][\A w \in Workers :
            (/\ wk[w].pc = "get"
             /\ db.LastProcessedIndex = 0
             /\ wk'[w].pc \notin {"get", "seterror"}) =>
                /\ wk'[w].start = Max(0, wk[w].sth - batchSize)
                /\ wk'[w].start >= 0
                /\ wk'[w].end = wk[w].sth - 1
                /\ wk'[w].pc = "entries" <=> wk[w].sth > 0]_vars
    /\ [][\A w \in Workers :
            (/\ wk[w].pc = "update"
             /\ wk[w].hasNewEntries
             /\ wk[w].state.LastProcessedIndex = 0
             /\ wk'[w].pc # wk[w].pc
             /\ "progress" \notin faults) =>
                /\ wk[w].batchStart = Max(0, wk[w].sth - batchSize)
                /\ db'.LastProcessedIndex = wk[w].sth
                /\ db'.LastTreeSize = wk[w].sth]_vars

\* C17 witness: the first batch of a run over a log one entry longer than the
\* batch size began at entry 1; entry 0 was never fetched
C17_Witness ==
    /\ db.LastProcessedIndex = batchSize + 1
    /\ db.LastTreeSize = batchSize + 1
    /\ db.TotalProcessed = batchSize
    /\ db.CertsInLastCycle = batchSize

(***************************************************************************)
(* C18.                                                                    *)
(***************************************************************************)
\* entry i of the log as the parser sees it
Parsed(i) == ParseLeafInput(LogEntry(i).leafInput, LogEntry(i).extraData)

\* the entries of worker w's batch
Batch(w) == {wk[w].batchStart + i : i \in 0..(wk[w].entries - 1)}

\* worker w has matched a batch of new entries against a keyword list that is not empty
Matched(w) ==
    /\ wk[w].pc = "update"
    /\ wk[w].hasNewEntries
    /\ wk[w].keywords # <<>>

\* C18: the parser rejects a leaf that is too short, of an unknown type or whose
\* certificate does not decode; a batch with such an entry is matched to its end
\* (every entry of it that parses has its matches stored, those after the failing
\* entry too), and the progress write counts the rejected entries in
\* parse_errors_in_last_cycle, all the fetched entries in certs_in_last_cycle and
\* moves last_processed_index to end + 1.
C18_ParseErrorSkipped ==
    /\ [](/\ ParseLeafInput(<<0, 0>>, <<>>).err = "TooShort"
          /\ ParseLeafInput(LeafHeader(0) \o <<0, 0, 9>> \o DerA, <<>>).err = "TooShort"
          /\ ParseLeafInput(LeafHeader(7) \o <<0, 0, 0>>, <<>>).err = "UnknownType"
          /\ ParseLeafInput(X509Leaf(<<48, 9>>), <<>>).err = "ParseFailed")
    /\ [](\A w \in Workers :
            (Matched(w) /\ "insert" \notin faults) =>
                \A i \in Batch(w) :
                    Parsed(i).err = "" =>
                        \A m \in 1..Len(Match(Parsed(i), wk[w].keywords)) :
                            HasPair(matches, Parsed(i).serial,
                                    Match(Parsed(i), wk[w].keywords)[m].keywordID))
    /\ [][\A w \in Workers :
            (Matched(w) /\ wk'[w].pc # wk[w].pc /\ "progress" \notin faults) =>
                /\ db'.ParseErrorsInLastCycle =
                       Cardinality({i \in Batch(w) : Parsed(i).err # ""})
                /\ db'.CertsInLastCycle = wk[w].entries
                /\ db'.LastProcessedIndex = wk[w].end + 1
                /\ wk'[w].pc = "clear"]_vars

\* C18 witness: the batch of entries 2 and 3 has been processed; entry 2 does not
\* decode, entry 3 matched and its row is stored
C18_Witness ==
    /\ db.ParseErrorsInLastCycle = 1
    /\ db.CertsInLastCycle = 2
    /\ db.MatchesInLastCycle = 1
    /\ db.LastProcessedIndex = 4
    /\ \E j \in 1..Len(matches) : matches[j].CTLogIndex = 3

(***************************************************************************)
(* C19.                                                                    *)
(***************************************************************************)
\* the Create that worker w is about to make
NextCreate(w) == Plan(w)[wk[w].next + 1]

\* C19: a Create that fails stores nothing and is not counted, and the tick goes on
\* with the next Create of the batch or, after the last, with the progress write;
\* that write records the matches counted and, for new entries, moves
\* last_processed_index to end + 1, and the tick ends by clearing last_error.
C19_InsertErrorContinues ==
    /\ [][\A w \in Workers :
            (wk[w].pc = "match" /\ wk'[w] # wk[w]) =>
                /\ wk'[w].next = wk[w].next + 1
                /\ wk'[w].pc = IF wk'[w].next = Len(Plan(w)) THEN "update" ELSE "match"
                /\ wk'[w].matchCount \in {wk[w].matchCount, wk[w].matchCount + 1}
                /\ wk'[w].matchCount = wk[w].matchCount => matches' = matches
                /\ wk'[w].matchCount = wk[w].matchCount + 1 =>
                       HasPair(matches', NextCreate(w).SerialNumber,
                               NextCreate(w).KeywordID)
                /\ db' = db]_vars
    /\ [][\A w \in Workers :
            (/\ wk[w].pc = "update"
             /\ wk[w].keywords # <<>>
             /\ wk'[w].pc # wk[w].pc
             /\ "progress" \notin faults) =>
                /\ wk[w].next = Len(Plan(w))
                /\ db'.MatchesInLastCycle = wk[w].matchCount
                /\ wk[w].hasNewEntries => db'.LastProcessedIndex = wk[w].end + 1
                /\ wk'[w].pc = "clear"]_vars
    /\ [][\A w \in Workers :
            (wk[w].pc = "clear" /\ wk'[w].pc # wk[w].pc) =>
                (db' = [db EXCEPT !.LastError = ""] /\ wk'[w].pc = "wait")]_vars

\* C19 witness: of the two Creates of the batch of entries 0 and 1 the first failed:
\* the row stored is that of entry 1, one match is counted, the index has moved
\* past both entries and last_error is empty
C19_Witness ==
    /\ faults = {"insert"}
    /\ \E w \in Workers : wk[w].pc = "wait"
    /\ db.LastProcessedIndex = 2
    /\ db.CertsInLastCycle = 2
    /\ db.ParseErrorsInLastCycle = 0
    /\ db.MatchesInLastCycle = 1
    /\ db.LastError = ""
    /\ Len(matches) = 1
    /\ matches[1].CTLogIndex = 1

(***************************************************************************)
(* C20.                                                                    *)
(***************************************************************************)
\* s contains keyword value k, letter case ignored
ContainsFold(s, k) ==
    \E i \in 0..(Len(s) - Len(k)) :
        \A j \in 1..Len(k) : LowerChar(s[i + j]) = LowerChar(k[j])

\* the result the claim prescribes for keyword kw on certificate c, as a sequence
\* of no or one result
Prescribed(c, kw) ==
    LET hits == { i \in 1..Len(c.sans) : ContainsFold(c.sans[i], kw.value) } IN
    IF c.commonName # <<>> /\ ContainsFold(c.commonName, kw.value)
    THEN << [keywordID |-> kw.id, matchedDomain |-> c.commonName] >>
    ELSE IF hits # {}
    THEN << [keywordID |-> kw.id,
             matchedDomain |-> c.sans[CHOOSE i \in hits : \A j \in hits : i <= j]] >>
    ELSE <<>>

ResultsFor(id) ==
    SelectSeq(matchCall.results, LAMBDA r : r.keywordID = id)

\* C20: what Match returns holds, for each keyword of the list, no or one result: the
\* common name if it is non-empty and contains the keyword, else the first SAN in the
\* certificate's order that contains it, else nothing (letter case ignored); and it
\* holds no result for anything that is not a keyword of the list.
C20_MatchChoice ==
    matchCall.returned =>
        /\ \A i \in 1..Len(matchCall.keywords) :
              ResultsFor(matchCall.keywords[i].id)
                  = Prescribed(matchCall.cert, matchCall.keywords[i])
        /\ \A n \in 1..Len(matchCall.results) :
              \E i \in 1..Len(matchCall.keywords) :
                  matchCall.results[n].keywordID = matchCall.keywords[i].id

\* C20 witness: the common name and the first SAN both contain the first keyword and
\* the common name is returned; the common name does not contain the second keyword,
\* both SANs do, and the first SAN is returned
C20_Witness ==
    /\ matchCall.returned
    /\ matchCall.cert = [commonName |-> <<"A", "b">>,
                         sans |-> << <<"x", "a", "B">>, <<"c", "x">> >>]
    /\ matchCall.keywords = << [id |-> 11, value |-> <<"A", "B">>],
                               [id |-> 12, value |-> <<"x">>] >>
    /\ matchCall.results = << [keywordID |-> 11, matchedDomain |-> <<"A", "b">>],
                              [keywordID |-> 12, matchedDomain |-> <<"x", "a", "B">>] >>

(***************************************************************************)
(* C21.                                                                    *)
(***************************************************************************)
\* the position in the keyword list of the keyword with this id
KeywordPosition(id) ==
    CHOOSE i \in 1..Len(matchCall.keywords) : matchCall.keywords[i].id = id

\* the names of the certificate, as the certificate spells them
NamesOf(c) == {c.commonName} \cup {c.sans[i] : i \in 1..Len(c.sans)}

\* C21: Match returns for every certificate and keyword list, also for an empty list,
\* an empty common name and no SANs; what it returns is a sequence of results, each
\* with the id of a keyword of the list, in the order of the list, and each with a
\* name of the certificate spelled as the certificate spells it.
C21_MatchTotalOrdered ==
    /\ ~matchCall.returned => ENABLED CallMatch
    /\ matchCall.returned =>
         /\ DOMAIN matchCall.results = 1..Len(matchCall.results)
         /\ \A n \in 1..Len(matchCall.results) :
              /\ \E i \in 1..Len(matchCall.keywords) :
                    matchCall.results[n].keywordID = matchCall.keywords[i].id
              /\ matchCall.results[n].matchedDomain \in NamesOf(matchCall.cert)
         /\ \A n, m \in 1..Len(matchCall.results) :
              n < m => KeywordPosition(matchCall.results[n].keywordID)
                         < KeywordPosition(matchCall.results[m].keywordID)
         /\ matchCall.keywords = <<>> => matchCall.results = <<>>
         /\ (matchCall.cert.commonName = <<>> /\ matchCall.cert.sans = <<>>)
              => matchCall.results = <<>>

\* C21 witness: no common name; the lower-case keyword and then the upper-case one are
\* both found in the mixed-case first SAN, which is returned for each as it is spelled,
\* in the order of the keywords
C21_Witness ==
    /\ matchCall.returned
    /\ matchCall.cert = [commonName |-> <<>>,
                         sans |-> << <<"x", "a", "B">>, <<"a", "b">> >>]
    /\ matchCall.keywords = << [id |-> 11, value |-> <<"b">>],
                               [id |-> 12, value |-> <<"A", "B">>] >>
    /\ matchCall.results = << [keywordID |-> 11, matchedDomain |-> <<"x", "a", "B">>],
                              [keywordID |-> 12, matchedDomain |-> <<"x", "a", "B">>] >>

(***************************************************************************)
(* C22.                                                                    *)
(***************************************************************************)
\* the entry type of a leaf that has one
EntryTypeOf(data) == Uint16(SubSeq(data, 11, 12))

\* the length declared at the given offset (from 0) of the buffer exceeds what the
\* buffer holds after it, or the three bytes of the length are not all there
DeclaredExceeds(buf, offset) ==
    \/ Len(buf) < offset + 3
    \/ Len(buf) < offset + 3 + readUint24(SubSeq(buf, offset + 1, offset + 3))

\* every slice taken lies inside the buffer it is taken from
SlicesInBounds ==
    \A n \in 1..Len(parseCall.slices) :
        LET s == parseCall.slices[n]
            buf == IF s.buf = "data" THEN parseCall.data ELSE parseCall.extraData
        IN 0 <= s.lo /\ s.lo <= s.hi /\ s.hi <= Len(buf)

ShutdownStop == IsRunning /\ StopCall(FALSE)

\* main after that Stop has returned: srv.Shutdown, return; the process is gone
ShutdownExit == ret.op = "Stop" /\ Crash

\* worker w is inside processBatch, its context live or canceled
InBatch(w) == wk[w].pc \in BatchPCs \cup {"canceled"}

\* C23: the Stop of a shutdown does not return, and the process does not terminate
\* after it, while a worker is inside processBatch.
C23_ShutdownWaitsForBatch ==
    /\ [][ShutdownStop => \A w \in Workers : ~InBatch(w)']_vars
    /\ [][ShutdownExit => \A w \in Workers : ~InBatch(w)]_vars

(***************************************************************************)
(* C24.                                                                    *)
(***************************************************************************)
\* the table holds this value, byte for byte
Stored(value) == \E i \in 1..Len(keywords) : keywords[i].value = value

\* the table holds a value that is this one when the letter case is ignored
StoredFold(value) ==
    \E i \in 1..Len(keywords) : ToLower(keywords[i].value) = ToLower(value)

\* C24 as stated: no two stored keywords are equal when the letter case is ignored; a
\* create of a value that a stored keyword equals when the case is ignored leaves the
\* table as it is and is answered 409 when the store works; an accepted value is
\* stored as sent (trimmed).
C24_FoldedUnique ==
    /\ [](\A i, j \in 1..Len(keywords) :
            ToLower(keywords[i].value) = ToLower(keywords[j].value) => i = j)
    /\ [][\A input \in KeywordBodies :
            (CreateKeywordRequest(input) /\ StoredFold(TrimSpace(input))) =>
                /\ keywords' = keywords
                /\ CreateStatus(keywords, input, TRUE) = 409]_vars
    /\ [][\A input \in KeywordBodies :
            (CreateKeywordRequest(input) /\ keywords' # keywords) =>
                keywords' = Append(keywords, [id |-> keywordSeq + 1,
                                              value |-> TrimSpace(input)])]_vars

\* the create of this request body can append the value as sent (trimmed) under a
\* fresh id
Accepted(input) ==
    ENABLED (/\ CreateKeywordRequest(input)
             /\ keywords' = Append(keywords, [id |-> keywordSeq + 1,
                                              value |-> TrimSpace(input)]))

\* the create of this request body can change the table
Changing(input) == ENABLED (CreateKeywordRequest(input) /\ keywords' # keywords)

\* C24 amended: no two stored keywords have the same value or the same id; a create of
\* a value that is stored byte for byte cannot change the table and is answered 409
\* when the store works; a create of a valid value that is not stored, also one that
\* differs from a stored one in letter case only, is answered 201 when the store works
\* and appends the value as sent (trimmed) under a fresh id, and a create changes the
\* table in no other way; a delete removes the keyword with the id and nothing else.
C24_ExactUnique ==
    /\ [](\A i, j \in 1..Len(keywords) :
            (keywords[i].value = keywords[j].value \/ keywords[i].id = keywords[j].id)
                => i = j)
    /\ [](\A input \in KeywordBodies :
            (procUp /\ Stored(TrimSpace(input))) =>
                (~Changing(input) /\ CreateStatus(keywords, input, TRUE) = 409))
    /\ [](\A input \in KeywordBodies :
            (procUp /\ ~Stored(TrimSpace(input)) /\ Len(TrimSpace(input)) >= 3) =>
                (Accepted(input) /\ CreateStatus(keywords, input, TRUE) = 201))
    /\ [][\A input \in KeywordBodies :
            (CreateKeywordRequest(input) /\ keywords' # keywords) =>
                keywords' = Append(keywords, [id |-> keywordSeq + 1,
                                              value |-> TrimSpace(input)])]_vars
    /\ [][\A id \in 1..MaxKeywordID :
            DeleteKeywordRequest(id) =>
                \/ keywords' = keywords
                \/ keywords' = SelectSeq(keywords, LAMBDA k : k.id # id)]_vars

\* C24 witness: after three creates and a delete the table holds the same word in two
\* spellings
C24_Witness ==
    /\ keywordSeq = 3
    /\ Len(keywords) = 2
    /\ keywords[1].value = <<"a", "b", "c">>
    /\ keywords[2].value = <<"A", "B", "C">>
    /\ keywords[2].id = 3

(***************************************************************************)
(* C25.                                                                    *)
(***************************************************************************)
\* C25: a worker whose context is canceled and that is waiting in run's select does
\* not begin another processBatch: from the select it only leaves the loop.
C25_NoTickAfterCancel ==
    [][\A w \in Workers :
         (wk[w].pc = "wait" /\ wk[w].done /\ wk'[w].pc # "wait") =>
             wk'[w].pc = "none"]_vars

(***************************************************************************)
(* C26.                                                                    *)
(***************************************************************************)
\* the MonitorState that worker w's progress write carries
ProgressWrite(w) ==
    LET parseErrors == IF wk[w].keywords = <<>> THEN 0
                       ELSE ParseErrors(0, wk[w].entries, wk[w].batchStart)
    IN IF wk[w].hasNewEntries
       THEN AdvancedState(wk[w].state, wk[w].end, wk[w].sth, wk[w].entries,
                          wk[w].matchCount, parseErrors)
       ELSE ReprocessedState(wk[w].state, wk[w].sth, wk[w].entries,
                             wk[w].matchCount, parseErrors)

\* worker w's progress write is made in this step and fails
ProgressWriteFails(w) ==
    /\ wk[w].pc = "update"
    /\ wk'[w].pc # "update"
    /\ db' = db
    /\ ProgressWrite(w) # db

\* C26: a tick whose progress write fails goes on to record a non-empty last_error,
\* not to clear it, and leaves last_processed_index as it was.
C26_ProgressFailureRecorded ==
    [][\A w \in Workers :
         ProgressWriteFails(w) =>
             /\ wk'[w].pc = "seterror"
             /\ wk'[w].err # ""
             /\ db'.LastProcessedIndex = db.LastProcessedIndex]_vars

(***************************************************************************)
(* C27.                                                                    *)
(***************************************************************************)
\* C27: the progress write of a caught-up tick that re-matched leaves
\* last_processed_index, total_processed, certs_in_last_cycle and
\* parse_errors_in_last_cycle as the tick read them (with one worker, as the store
\* holds them); matches_in_last_cycle becomes the tick's match count and
\* last_tree_size the tree size of the tick.
C27_RematchKeepsCounters ==
    [][\A w \in Workers :
         (wk[w].pc = "update" /\ ~wk[w].hasNewEntries /\ db' # db) =>
             /\ db'.LastProcessedIndex = db.LastProcessedIndex
             /\ db'.TotalProcessed = db.TotalProcessed
             /\ db'.CertsInLastCycle = db.CertsInLastCycle
             /\ db'.ParseErrorsInLastCycle = db.ParseErrorsInLastCycle
             /\ db'.MatchesInLastCycle = wk[w].matchCount
             /\ db'.LastTreeSize = wk[w].sth]_vars

(***************************************************************************)
(* C28.                                                                    *)
(***************************************************************************)
\* worker w's GetEntries for new entries returns in this step
FetchesNew(w) == wk[w].pc = "entries" /\ wk'[w].pc = "keywords"

\* worker w's GetEntries for the window of a caught-up tick returns in this step
Refetches(w) == wk[w].pc = "reentries" /\ wk'[w].pc = "keywords"

\* the progress write of a tick with new entries takes effect in this step
Advances(w) ==
    wk[w].pc = "update" /\ wk[w].hasNewEntries /\ wk'[w].pc = "clear" /\ db' # db

\* the write of such a tick: last_processed_index = end + 1 whatever the log returned,
\* total_processed the value the tick read plus the number of entries returned,
\* certs_in_last_cycle that number
AdvancesPastRange(w) ==
    /\ db'.LastProcessedIndex = wk[w].end + 1
    /\ db'.TotalProcessed = wk[w].state.TotalProcessed + wk[w].entries
    /\ db'.CertsInLastCycle = wk[w].entries
    /\ wk[w].entries <= wk[w].end - wk[w].start + 1

\* C28 as stated: the write is as above, and an index that was requested and not
\* returned is not requested again: while no entry at all was returned for the
\* indices below last_processed_index, no request reaches below it.
C28_SkippedNeverFetched ==
    /\ [][\A w \in Workers : Advances(w) => AdvancesPastRange(w)]_vars
    /\ [][\A w \in Workers :
            (/\ db.TotalProcessed = 0
             /\ db.LastProcessedIndex > 0
             /\ FetchesNew(w) \/ Refetches(w)) =>
                wk'[w].batchStart >= db.LastProcessedIndex]_vars

\* C28 amended: the write is as above; a tick that read a last_processed_index other
\* than 0 requests new entries from that index on and never below it, so the indices
\* a truncated answer left out are not part of any later request for new entries;
\* the window [max(0, index - batch), index - 1] that a caught-up tick in re-match
\* mode requests does contain them.
C28_SkippedOnlyRefetched ==
    /\ [][\A w \in Workers : Advances(w) => AdvancesPastRange(w)]_vars
    /\ [][\A w \in Workers :
            FetchesNew(w) =>
                /\ wk'[w].batchStart = wk[w].start
                /\ wk[w].state.LastProcessedIndex # 0 =>
                       wk[w].start = wk[w].state.LastProcessedIndex
                /\ wk[w].start <= wk[w].end]_vars
    /\ [][\A w \in Workers :
            Refetches(w) =>
                /\ wk'[w].batchStart = Max(0, wk[w].state.LastProcessedIndex - batchSize)
                /\ wk'[w].batchStart < wk[w].state.LastProcessedIndex
                /\ reprocessOnIdle]_vars

\* C28 witness: the tick requested entries 0 and 1, the log returned one, and the
\* write put the index at 2 with one entry counted
C28_Witness ==
    /\ \E w \in Workers : wk[w].pc = "clear"
    /\ db.LastProcessedIndex = 2
    /\ db.LastTreeSize = 2
    /\ db.TotalProcessed = 1
    /\ db.CertsInLastCycle = 1

(***************************************************************************)
(* C29.                                                                    *)
(***************************************************************************)
\* the position of the keyword with this id in the list worker w loaded
ListPosition(w, id) ==
    CHOOSE i \in 1..Len(wk[w].keywords) : wk[w].keywords[i].id = id

\* of two Creates, x is for an earlier entry than y, or for the same entry and a
\* keyword earlier in the list
Earlier(w, x, y) ==
    \/ x.CTLogIndex < y.CTLogIndex
    \/ /\ x.CTLogIndex = y.CTLogIndex
       /\ ListPosition(w, x.KeywordID) < ListPosition(w, y.KeywordID)

\* the certificate of the entry at this log index
EntryCert(index) ==
    ParseLeafInput(LogEntry(index).leafInput, LogEntry(index).extraData)

\* C29: the Creates of a tick are made one at a time in the order of the entries and,
\* for one entry, of the keyword list; each carries the log index batchStart + i of
\* its entry i and that entry's serial; the store is written with progress only after
\* the last of them.
C29_BatchOrder ==
    /\ [](\A w \in Workers :
            wk[w].pc \in {"match", "update"} =>
                /\ \A a, b \in 1..Len(Plan(w)) :
                       a < b => Earlier(w, Plan(w)[a], Plan(w)[b])
                /\ \A a \in 1..Len(Plan(w)) :
                       /\ Plan(w)[a].CTLogIndex \in
                              wk[w].batchStart..(wk[w].batchStart + wk[w].entries - 1)
                       /\ Plan(w)[a].SerialNumber
                              = EntryCert(Plan(w)[a].CTLogIndex).serial)
    /\ [][\A w \in Workers :
            (wk[w].pc = "match" /\ wk'[w] # wk[w]) =>
                /\ wk'[w].next = wk[w].next + 1
                /\ \/ matches' = matches
                   \/ matches' = Append(matches, Plan(w)[wk[w].next + 1])
                /\ db' = db]_vars
    /\ [][\A w \in Workers :
            (wk[w].pc = "update" /\ wk'[w].pc = "clear") =>
                wk[w].next = Len(Plan(w))]_vars

\* C29 witness: entry 0, then entry 3, each matched by both keywords, are stored in
\* the order of the entries and, for each entry, of the keyword list (last created
\* keyword first)
C29_Witness ==
    /\ Len(matches) = 4
    /\ matches[1].CTLogIndex = 0 /\ matches[1].KeywordID = 2
    /\ matches[2].CTLogIndex = 0 /\ matches[2].KeywordID = 1
    /\ matches[3].CTLogIndex = 3 /\ matches[3].KeywordID = 2
    /\ matches[4].CTLogIndex = 3 /\ matches[4].KeywordID = 1
    /\ db.LastProcessedIndex = 4

(***************************************************************************)
(* C30.                                                                    *)
(***************************************************************************)
\* worker w takes a step of its tick
Steps(w) == wk'[w] # wk[w]

\* the keywords table is empty and worker w's List call has succeeded
ListsNone(w) ==
    /\ wk[w].pc = "keywords"
    /\ keywords = <<>>
    /\ Steps(w)
    /\ wk'[w].pc # "seterror"

\* C30: over an empty keywords table a tick makes no Create; with new entries it
\* writes last_processed_index = end + 1, the number fetched, no match and no parse
\* error; caught up it writes the tree size it read; and in each case last_error is
\* cleared.
C30_EmptyListAdvances ==
    [][\A w \in Workers :
         /\ ListsNone(w) => wk'[w].pc = "update"
         /\ (wk[w].pc = "update" /\ wk[w].keywords = <<>> /\ Steps(w)) =>
                /\ wk'[w].pc = "clear"
                /\ matches' = matches
                /\ db' # db =>
                     /\ db'.LastTreeSize = wk[w].sth
                     /\ db'.MatchesInLastCycle = 0
                     /\ wk[w].hasNewEntries =>
                          /\ db'.LastProcessedIndex = wk[w].end + 1
                          /\ db'.CertsInLastCycle = wk[w].entries
                          /\ db'.ParseErrorsInLastCycle = 0
         /\ (wk[w].pc = "idle" /\ keywords = <<>> /\ Steps(w) /\ db' # db) =>
                /\ db'.LastTreeSize = wk[w].sth
                /\ db'.LastError = ""]_vars

\* the new-entries half alone
C30_NewEntriesHalf ==
    [][\A w \in Workers :
         /\ (ListsNone(w) /\ wk[w].hasNewEntries) => wk'[w].pc = "update"
         /\ (wk[w].pc = "update" /\ wk[w].keywords = <<>> /\ Steps(w)) =>
                /\ wk'[w].pc = "clear"
                /\ matches' = matches
                /\ db' # db =>
                     /\ db'.LastTreeSize = wk[w].sth
                     /\ db'.MatchesInLastCycle = 0
                     /\ db'.LastProcessedIndex = wk[w].end + 1
                     /\ db'.CertsInLastCycle = wk[w].entries
                     /\ db'.ParseErrorsInLastCycle = 0]_vars

\* the re-match half alone
C30_RematchHalf ==
    [][\A w \in Workers :
         (ListsNone(w) /\ ~wk[w].hasNewEntries) => wk'[w].pc = "update"]_vars

\* the half of the branch that re-fetches nothing alone
C30_IdleHalf ==
    [][\A w \in Workers :
         (wk[w].pc = "idle" /\ keywords = <<>> /\ Steps(w) /\ db' # db) =>
             /\ db'.LastTreeSize = wk[w].sth
             /\ db'.LastError = ""]_vars

(***************************************************************************)
(* C31.                                                                    *)
(***************************************************************************)
\* worker w's tick has failed: SetError is its last call
TickFailed(w) == wk[w].pc = "seterror"

\* worker w is the running worker: it holds the handle and the stored flag is set
Running(w) == cancel = w /\ db.IsRunning

\* C31: a tick of the running worker that fails on an error of the log or of the
\* store is followed, unless the worker is stopped, by the worker's next tick, with
\* the handle and the stored is_running still in place.
C31_ErrorKeepsWorker ==
    \A w \in Workers :
        (TickFailed(w) /\ Running(w)) ~> (wk[w].done \/ (wk[w].pc = "sth" /\ Running(w)))

\* C31 witness: the tick of the running worker has failed and recorded it, and the
\* worker waits for its next tick with the handle and the flag in place
C31_Witness ==
    \E w \in Workers :
        /\ wk[w].pc = "wait"
        /\ ~wk[w].done
        /\ Running(w)
        /\ db.LastError # ""

(***************************************************************************)
(* C32.                                                                    *)
(***************************************************************************)
\* worker w, its tree head fetched, takes the step that decides how its tick ends
TickDecided(w) ==
    /\ wk[w].pc \in {"get", "entries", "reentries", "idle", "keywords", "match", "update"}
    /\ Steps(w)
    /\ wk'[w].pc \in {"seterror", "clear", "wait"}

\* C32: every tick whose tree head fetch succeeded leaves last_tree_size equal to the
\* tree size that fetch returned, whatever its later steps do.
C32_TreeSizeOfLastFetch ==
    [][\A w \in Workers : TickDecided(w) => db'.LastTreeSize = wk[w].sth]_vars

\* worker w's Update call takes effect
ProgressWritten(w) ==
    /\ wk[w].pc \in {"idle", "update"}
    /\ wk'[w].pc \in {"wait", "clear"}
    /\ db' # db

\* C32 as amended: a progress write of a tick, in the new-entries, the caught-up and
\* the re-match branch alike, stores the tree size the tick fetched; every other step
\* of a tick, and with it every tick that fails after its tree head fetch or finds no
\* keyword to re-match, leaves last_tree_size as it was.
C32_TreeSizeOfLastWrite ==
    [][\A w \in Workers :
         Steps(w) =>
             IF ProgressWritten(w)
             THEN db'.LastTreeSize = wk[w].sth
             ELSE db'.LastTreeSize = db.LastTreeSize]_vars

\* C32 witness: a tick that fetched the tree head has failed to fetch its entries while
\* the stored tree size, written by an earlier tick, is behind the log
C32_Witness ==
    \E w \in Workers :
        /\ wk[w].pc = "seterror"
        /\ wk[w].err = "failed to fetch entries: " \o ErrStore
        /\ db.LastTreeSize > 0
        /\ db.LastTreeSize < treeSize

(***************************************************************************)
(* C33.                                                                    *)
(***************************************************************************)
\* C33: a certificate is returned only for a leaf whose version byte and leaf type
\* byte are both 0.
C33_VersionChecked ==
    (parseCall.returned /\ parseCall.err = "") =>
        /\ parseCall.data[1] = 0
        /\ parseCall.data[2] = 0

\* C33 as amended: the parser reads nothing of the leaf before offset 2, and what it
\* returns for a leaf is what it returns for the same leaf with version and leaf type
\* set to 0: an x509 leaf of version 1 or leaf type 1 yields its certificate.
C33_VersionIgnored ==
    parseCall.returned =>
        /\ \A n \in 1..Len(parseCall.slices) :
               parseCall.slices[n].buf = "data" => parseCall.slices[n].lo >= 2
        /\ Len(parseCall.data) >= 2 =>
               parseCall.err
                   = ParseLeafInput(Versioned(parseCall.data, 0, 0), parseCall.extraData).err
        /\ (\E v, t \in 0..1 : parseCall.data = Versioned(X509Leaf(DerA), v, t)) =>
               parseCall.err = ""

\* C33 witness: an x509 leaf of version 1 and leaf type 1 was parsed without error
C33_Witness ==
    /\ parseCall.returned
    /\ parseCall.data = Versioned(X509Leaf(DerA), 1, 1)
    /\ parseCall.err = ""

(***************************************************************************)
(* C34.                                                                    *)
(***************************************************************************)
\* C34: a tick counts a match for every Create that returned without error, a Create
\* ignored as a duplicate of a stored (serial, keyword) pair included, and writes that
\* count as matches_in_last_cycle.
C34_MatchesCountCalls ==
    [][\A w \in Workers :
         /\ (wk[w].pc = "keywords" /\ Steps(w)) => wk'[w].matchCount = 0
         /\ (wk[w].pc = "match" /\ Steps(w)) =>
                LET cert == NextCreate(w) IN
                /\ wk'[w].matchCount \in {wk[w].matchCount, wk[w].matchCount + 1}
                /\ matches' # matches => wk'[w].matchCount = wk[w].matchCount + 1
                /\ HasPair(matches, cert.SerialNumber, cert.KeywordID) =>
                       matches' = matches
                /\ ("insert" \notin faults /\ KeywordExists(keywords, cert.KeywordID)) =>
                       wk'[w].matchCount = wk[w].matchCount + 1
                /\ ~KeywordExists(keywords, cert.KeywordID) =>
                       wk'[w].matchCount = wk[w].matchCount
         /\ (wk[w].pc = "update" /\ wk'[w].pc = "clear" /\ db' # db) =>
                db'.MatchesInLastCycle = wk[w].matchCount]_vars

\* C34 witness: the last tick wrote two matches and the table holds one row
C34_Witness ==
    /\ db.MatchesInLastCycle = 2
    /\ Len(matches) = 1

(***************************************************************************)
(* C35.                                                                    *)
(***************************************************************************)
\* C35: when Stop has returned ok the stored is_running is false, and the step that
\* follows sets it only if it is a Start that returns ok: no write of a worker, the
\* stopped worker's tick in flight included, sets it back.
C35_StoppedFlagStays ==
    /\ [](ret = StopOk => ~db.IsRunning)
    /\ [][(ret = StopOk /\ db'.IsRunning) => ret' = StartOk]_vars

(***************************************************************************)
(* C36.                                                                    *)
(***************************************************************************)
\* the deferred function of worker w, stopped earlier, takes a step while the handle
\* of a worker started after it is stored
StoppedHandlerStep(w) ==
    /\ wk[w].done
    /\ wk[w].pc \in {"recover", "recover_running"}
    /\ wk'[w].pc \in {"recover_running", "recover_error"}
    /\ cancel \notin {0, w}

\* C36: the panic handler of a worker that Stop had already stopped leaves the handle
\* of the worker started after it in place, and leaves the stored is_running set while
\* that worker runs.
C36_HandlerOwnWorkerOnly ==
    [][\A w \in Workers :
         StoppedHandlerStep(w) =>
             /\ cancel' = cancel
             /\ db.IsRunning => db'.IsRunning]_vars

(***************************************************************************)
(* C37.                                                                    *)
(***************************************************************************)
\* the tick of worker w, its new entries fetched, is cut by a Stop or by the process
\* going away
Cut(w) ==
    /\ wk[w].pc \in {"keywords", "match", "update"}
    /\ wk[w].hasNewEntries
    /\ wk'[w].pc \in {"none", "canceled"}

\* the tree sizes a tick made after this step can read from a log that only grows
LaterTrees == treeSize'..MaxTree

\* the progress write of worker w takes effect
Advance(w) == wk[w].pc = "update" /\ wk'[w].pc = "clear" /\ db' # db

\* C37: the index moves only in the write made after every Create of the batch was
\* attempted; a tick cut after its fetch leaves the index as it was, and whatever tree
\* size the next tick reads, its range starts where the range of the cut tick started.
C37_CutTickFetchedAgain ==
    [][/\ db'.LastProcessedIndex # db.LastProcessedIndex =>
            \E w \in Workers : Advance(w) /\ wk[w].next = Len(Plan(w))
       /\ \A w \in Workers :
            Cut(w) =>
                /\ db'.LastProcessedIndex = db.LastProcessedIndex
                /\ db.LastProcessedIndex = wk[w].state.LastProcessedIndex =>
                       \A t \in LaterTrees :
                           RangeStart(db'.LastProcessedIndex, t) = wk[w].start]_vars

\* C37 as amended: a tick stores an index other than the one it read, end + 1, only
\* in the write made after every Create of its batch was attempted, and a Create
\* repeated for a stored pair adds no row; a tick cut after its fetch leaves the index
\* as it was, and if the index it read is still the stored one and is not 0, the cut
\* tick started at it and so does every later tick until the index moves.  With the
\* index 0 the start is taken from the tree size.
C37_CutTickKeepsIndex ==
    [][/\ db'.LastProcessedIndex # db.LastProcessedIndex =>
            \E w \in Workers :
                \/ /\ Advance(w)
                   /\ wk[w].next = Len(Plan(w))
                   /\ db'.LastProcessedIndex = IF wk[w].hasNewEntries THEN wk[w].end + 1
                                               ELSE wk[w].state.LastProcessedIndex
                \/ /\ wk[w].pc = "idle"
                   /\ wk'[w].pc = "wait"
                   /\ db'.LastProcessedIndex = wk[w].state.LastProcessedIndex
       /\ \A w \in Workers :
            /\ (wk[w].pc = "match" /\ Steps(w)
                  /\ HasPair(matches, NextCreate(w).SerialNumber, NextCreate(w).KeywordID))
                   => matches' = matches
            /\ Cut(w) =>
                /\ db'.LastProcessedIndex = db.LastProcessedIndex
                /\ (/\ db.LastProcessedIndex = wk[w].state.LastProcessedIndex
                    /\ db.LastProcessedIndex # 0) =>
                       /\ wk[w].start = db.LastProcessedIndex
                       /\ \A t \in LaterTrees :
                              RangeStart(db'.LastProcessedIndex, t)
                                  = db.LastProcessedIndex]_vars

\* C37 witness: while the worker stopped in its tick has not left it, the worker started
\* after it has fetched the range that starts at the stored index, which is not 0
C37_Witness ==
    \E w, v \in Workers :
        /\ wk[w].pc = "canceled"
        /\ wk[v].pc = "keywords"
        /\ wk[v].hasNewEntries
        /\ wk[v].start = db.LastProcessedIndex
        /\ db.LastProcessedIndex # 0


(***************************************************************************)
(* The range of a request for new entries.                                 *)
(***************************************************************************)
\* the worker is about to call GetEntries(start, end) for new entries
AsksNewEntries(w) == wk[w].pc = "entries"

\* C38: every GetEntries call for new entries has 0 <= start <= end <= tree_size - 1
\* and end - start + 1 <= batch_size, tree_size being the tree head fetched in the
\* same tick; a tick whose range has start > end makes no such call.
C38_RequestInRange ==
    /\ [](\A w \in Workers :
            AsksNewEntries(w) =>
                /\ 0 <= wk[w].start
                /\ wk[w].start <= wk[w].end
                /\ wk[w].end <= wk[w].sth - 1
                /\ wk[w].end - wk[w].start + 1 <= batchSize
                /\ wk[w].hasNewEntries)
    /\ [][\A w \in Workers :
            (/\ wk[w].pc = "get"
             /\ wk'[w].pc \notin {"get", "seterror"}
             /\ wk'[w].start > wk'[w].end) =>
                /\ ~AsksNewEntries(w)'
                /\ ~wk'[w].hasNewEntries]_vars

\* C38 witness: a tick that read index 2 and tree size 4 asks for entries 2 to 3,
\* a full batch that ends at the last entry of the log
C38_Witness ==
    \E w \in Workers :
        /\ AsksNewEntries(w)
        /\ wk[w].state.LastProcessedIndex = 2
        /\ wk[w].sth = 4
        /\ wk[w].start = 2
        /\ wk[w].end = 3
        /\ wk[w].end - wk[w].start + 1 = batchSize


(***************************************************************************)
(* The ranges of successive ticks that fetched new entries.                *)
(***************************************************************************)
\* the progress write of a tick that fetched new entries, made with the store
\* answering: the tick has succeeded
SucceedsNewEntries(w) ==
    /\ wk[w].pc = "update"
    /\ wk[w].hasNewEntries
    /\ wk'[w].pc = "clear"
    /\ "progress" \notin faults

\* an index above 0 is stored only by updateState, as end + 1 of a successful tick
\* that fetched new entries, or copied from a row read earlier: when the stored
\* index lies in start + 1 .. end + 1, a successful tick has fetched an entry of
\* this range before
FetchedBefore(w) == db.LastProcessedIndex \in (wk[w].start + 1)..(wk[w].end + 1)

\* C39: apart from the first-run jump (index read 0), a successful tick that fetched
\* new entries started at the stored index, the end + 1 of the previous successful
\* one, stores its own end + 1, and no entry of its range was fetched by a
\* successful tick before it: no index is fetched as a new entry twice, none
\* between two ranges is skipped.
C39_RangesContiguous ==
    [][\A w \in Workers :
         (SucceedsNewEntries(w) /\ wk[w].state.LastProcessedIndex # 0) =>
             /\ wk[w].start = wk[w].state.LastProcessedIndex
             /\ wk[w].start <= wk[w].end
             /\ db'.LastProcessedIndex = wk[w].end + 1
             /\ ~FetchedBefore(w)]_vars

\* a tick that read a set index and fetched new entries completes
C39_Reached ==
    \E w \in Workers :
        /\ wk[w].pc = "update"
        /\ wk[w].hasNewEntries
        /\ wk[w].state.LastProcessedIndex = 2
        /\ wk[w].start = 2
        /\ "progress" \notin faults


(***************************************************************************)
(* Catching up with a log that has stopped growing.                        *)
(***************************************************************************)
\* the log has reached its last size: it never grows again
LogStopped == treeSize = MaxTree

\* the caught-up state
CaughtUp == db.LastProcessedIndex = treeSize

\* C40, the half about what follows the caught-up state: with every log and store
\* call succeeding and the log at its last size, once last_processed_index equals
\* the tree size no step changes it again.
C40_CaughtUpStays ==
    [][(faults = {} /\ LogStopped /\ CaughtUp) =>
           db'.LastProcessedIndex = db.LastProcessedIndex]_vars


(***************************************************************************)
(* The worker under fair scheduling when no call fails: every call of a    *)
(* tick returns with success and the ticker fires.  Start and Stop are     *)
(* called at will, nothing panics and the process stays up.                *)
(***************************************************************************)
CatchUpInit ==
    /\ procUp = FALSE
    /\ reprocessOnIdle \in BOOLEAN
    /\ batchSize = BatchSize
    /\ faults = {}
    /\ panicky = FALSE
    /\ request = 0
    /\ cancel = 0
    /\ ret = NoReturn
    /\ wk = [w \in Workers |-> NoWorker]
    /\ db = ZeroState
    /\ keywords \in {<<>>, <<FirstKeyword>>}
    /\ keywordSeq = FirstKeyword.id
    /\ matches = <<>>
    /\ treeSize = 0
    /\ matchCall = NoCall
    /\ parseCall = NoParse

\* run and processBatch when every call succeeds
CatchUpStep(w) ==
    \/ GetSTH(w)
    \/ GetState(w)
    \/ GetEntries(w)
    \/ RefetchEntries(w)
    \/ IdleUpdate(w)
    \/ ListKeywords(w)
    \/ CreateMatch(w)
    \/ UpdateProgress(w)
    \/ ClearError(w)
    \/ CanceledReturn(w)
    \/ Tick(w)
    \/ Exit(w)

CatchUpNext ==
    \/ ProcessStart
    \/ Start
    \/ Stop
    \/ \E w \in Workers : CatchUpStep(w)
    \/ LogGrows

\* the steps of a worker whose context is live, but for those of matching
LiveStep(w) ==
    \/ GetSTH(w)
    \/ GetState(w)
    \/ GetEntries(w)
    \/ RefetchEntries(w)
    \/ IdleUpdate(w)
    \/ UpdateProgress(w)
    \/ ClearError(w)
    \/ Tick(w)

\* the worker is in m.keywords.List or in matchEntries
Matching(w) == wk[w].pc \in {"keywords", "match"}

\* every call processBatch makes returns, and time.NewTicker(m.interval) keeps firing
\* while the goroutine is in run's select; List and the Create calls of matchEntries,
\* one per entry of a finite plan, return as well, so the worker does not stay in
\* them for ever
CatchUpFairness ==
    \A w \in Workers : WF_vars(LiveStep(w)) /\ []<>(~Matching(w))

SpecCatchUp == CatchUpInit /\ [][CatchUpNext]_vars /\ CatchUpFairness

\* C40 with one live worker, the half about reaching the caught-up state: once the
\* log has stopped growing, a running worker goes on until last_processed_index
\* equals the tree size, unless it is stopped first
C40_CatchesUp ==
    \A w \in Workers :
        (LogStopped /\ Running(w)) ~> (CaughtUp \/ ~Running(w))

\* the log stopped at two entries and the worker, started on the empty log, caught
\* up with it in two ticks of one entry each
C40_Reached ==
    /\ LogStopped
    /\ CaughtUp
    /\ db.TotalProcessed = 2
    /\ \E w \in Workers : Running(w) /\ wk[w].pc = "wait"

====
